---- MODULE Spec2Model ----
(***************************************************************************)
(* Analytics engine of the Jira agent: src/analytics.py (JiraAnalytics),   *)
(* fed by src/jira_client.py (JiraAgent.search_tickets).                   *)
(*                                                                         *)
(* Conventions.                                                            *)
(*  - A table (pandas DataFrame) is a sequence of rows, each row a record  *)
(*    whose fields are the columns; the empty DataFrame is << >>.          *)
(*  - A Python dict is a function over its keys; {} has the empty domain.  *)
(*  - An optional value (None / NaT or a value) is << >> or <<v>>.         *)
(*  - Wall-clock time of the engine (datetime.now()) is counted in         *)
(*    minutes; ticket timestamps are counted in hours since the epoch      *)
(*    2024-01-01T00:00 (a Monday).                                         *)
(*  - A float that is a quotient is kept exact as [num, den].              *)
(***************************************************************************)
EXTENDS Integers, Sequences, FiniteSets, TLC

VARIABLES
    jira,             \* JiraAgent.jira: "client" or "None" (connection failed)
    clock,            \* the value datetime.now() would return, in minutes
    data_cache,       \* JiraAnalytics.data_cache: dict, key 'tickets' -> table
    cache_timestamp,  \* JiraAnalytics.cache_timestamp: << >> (None) or <<t>>
    calls,            \* number of get_fresh_data calls made so far
    reports,          \* number of them made by generate_comprehensive_report
    last,             \* observation of the most recent get_fresh_data call
    prev,             \* what the get_fresh_data call before it was and returned
    report,           \* what generate_comprehensive_report returned, when it
                      \* was the last operation; {} otherwise
    df,               \* table handed to a report operation
    op,               \* name of the report operation applied last
    out,              \* dict returned by that report operation
    raw_tickets,      \* the list of tickets that enrichment was given
    trend_series,     \* series handed to _calculate_trend
    direction,        \* what _calculate_trend returned for it
    response,         \* what the tool-layer operation called last returned
    pc,               \* position of each concurrent caller in get_fresh_data
    local             \* local variables of each concurrent caller

vars == <<jira, clock, data_cache, cache_timestamp, calls, reports, last,
          prev, report, df, op, out, raw_tickets, trend_series, direction,
          response, pc, local>>

trend_vars == <<trend_series, direction>>
tool_vars == <<response>>
race_vars == <<pc, local>>

----------------------------------------------------------------------------
(* Bounds of the model                                                     *)

MaxClock == 5
MaxCalls == 3
MaxReports == 1
MaxRows == 2
MaxSeries == 3
MaxValue == 3
MaxGroups == 11

----------------------------------------------------------------------------
(* Program constants                                                       *)

cache_duration == 5
HoursPerDay == 24

EmptyDict == [k \in {} |-> 0]
EmptyTable == << >>
NaT == << >>
None == << >>
Null == [null |-> TRUE]

Frac(n, d) == [num |-> n, den |-> d]
FracEq(a, b) == a.num * b.den = b.num * a.den
FracLeq(a, b) == a.num * b.den <= b.num * a.den

RECURSIVE SumSeq(_)
SumSeq(s) == IF s = << >> THEN 0 ELSE Head(s) + SumSeq(Tail(s))

----------------------------------------------------------------------------
(* Ticket data source: JiraAgent.search_tickets                            *)

\* One issue as the Jira API delivers it. created/updated are timestamp
\* texts: <<day, hour, utc offset>> when well formed, << >> when not.
Issue(k, st, asg, prj, pri, cr, up) ==
    [key |-> k, status |-> st, assignee |-> asg, project |-> prj,
     priority |-> pri, created |-> cr, updated |-> up]

\* The dict search_tickets builds for one issue.
TicketOf(issue) ==
    [key |-> issue.key,
     status |-> issue.status,
     assignee |-> IF issue.assignee = "" THEN "Unassigned" ELSE issue.assignee,
     project |-> issue.project,
     created |-> issue.created,
     updated |-> issue.updated,
     priority |-> IF issue.priority = "" THEN "None" ELSE issue.priority]

\* resp is what the Jira server does with the query: [kind |-> "ok", issues]
\* or [kind |-> "api_error"] (search_issues raises). Without a client, and
\* on any exception, the result is the empty list.
search_tickets(j, resp) ==
    IF j = "None" THEN << >>
    ELSE IF resp.kind # "ok" THEN << >>
    ELSE [i \in 1..Len(resp.issues) |-> TicketOf(resp.issues[i])]

----------------------------------------------------------------------------
(* Parsing: pd.to_datetime(column, errors='coerce')                        *)

WellFormed(text) == Len(text) = 3

\* Offsets of the well-formed texts of a column.
Offsets(tickets, col) ==
    {tickets[i][col][3] : i \in {n \in 1..Len(tickets) : WellFormed(tickets[n][col])}}

\* A column whose texts carry different UTC offsets does not parse to a
\* datetime column.
MixedOffsets(tickets, col) == Cardinality(Offsets(tickets, col)) > 1

\* One text to a timestamp, or NaT. A timestamp is <<local, off>>: the
\* wall-clock hours since the epoch in its own zone, and the zone's offset.
to_datetime(text) ==
    IF WellFormed(text) THEN <<text[1] * HoursPerDay + text[2], text[3]>> ELSE NaT

\* The instant of a timestamp, in hours (UTC).
Instant(ts) == ts[1] - ts[2]

ParseDates(tickets) ==
    [i \in 1..Len(tickets) |->
        [tickets[i] EXCEPT !.created = to_datetime(@),
                           !.updated = to_datetime(@)]]

----------------------------------------------------------------------------
(* Enrichment: JiraAnalytics._calculate_metrics                            *)

\* Variant of the list that misses one of the resolved statuses.
ResolvedStatuses_short == {"Done", "Closed", "Resolved"}
ResolvedStatuses == {"Done", "Closed", "Resolved", "Completed"}

is_resolved(status) == status \in ResolvedStatuses

_categorize_status(status) ==
    IF status \in {"Done", "Closed", "Resolved", "Completed"} THEN "Resolved"
    ELSE IF status \in {"In Progress", "Active", "Development"} THEN "Active"
    ELSE IF status \in {"To Do", "Open", "New", "Backlog"} THEN "Pending"
    ELSE "Other"

priority_score(priority) ==
    CASE priority = "Critical" -> 5
      [] priority = "High" -> 4
      [] priority = "Medium" -> 3
      [] priority = "Low" -> 2
      [] priority = "Lowest" -> 1
      [] OTHER -> 0

\* Calendar of 2024 (the epoch day 0 is Monday 2024-01-01).
DaysBefore == <<0, 31, 60, 91, 121, 152, 182, 213, 244, 274, 305, 335, 366>>
MonthOf(day) == CHOOSE m \in 1..12 : DaysBefore[m] <= day /\ day < DaysBefore[m + 1]
DateOf(ts) == IF ts = NaT THEN NaT ELSE <<ts[1] \div HoursPerDay>>
IsoWeekOf(ts) == IF ts = NaT THEN NaT ELSE <<(ts[1] \div HoursPerDay) \div 7 + 1>>
PeriodOf(ts) == IF ts = NaT THEN NaT ELSE <<2024, MonthOf(ts[1] \div HoursPerDay)>>
YearOf(ts) == IF ts = NaT THEN NaT ELSE <<2024>>

\* Variant that subtracts the calendar dates instead of the timestamps.
resolution_time_days_bydate(row) ==
    IF is_resolved(row.status) /\ row.created # NaT /\ row.updated # NaT
    THEN <<DateOf(row.updated)[1] - DateOf(row.created)[1]>>
    ELSE None

\* (updated - created).days: whole days of the time difference (floor).
resolution_time_days(row) ==
    IF is_resolved(row.status) /\ row.created # NaT /\ row.updated # NaT
    THEN <<(Instant(row.updated) - Instant(row.created)) \div HoursPerDay>>
    ELSE None

EnrichRow(row) ==
    row @@ [resolution_time_days |-> resolution_time_days(row),
            is_resolved |-> is_resolved(row.status),
            created_date |-> DateOf(row.created),
            created_week |-> IsoWeekOf(row.created),
            created_month |-> PeriodOf(row.created),
            created_year |-> YearOf(row.created),
            priority_score |-> priority_score(row.priority),
            status_category |-> _categorize_status(row.status)]

\* Variant that drops the rows with a timestamp that did not parse.
_calculate_metrics_dropna(t) ==
    LET kept == SelectSeq(t, LAMBDA r : r.created # NaT /\ r.updated # NaT)
    IN  [i \in 1..Len(kept) |-> EnrichRow(kept[i])]

_calculate_metrics(t) ==
    IF t = EmptyTable THEN t ELSE [i \in 1..Len(t) |-> EnrichRow(t[i])]

----------------------------------------------------------------------------
(* Aggregate reports                                                       *)

NaN == << >>

\* Rows of t with t[col] = v, in table order.
RowsWith(t, col, v) == SelectSeq(t, LAMBDA r : r[col] = v)

\* Number of rows of t with t[col] = v.
CountWith(t, col, v) == Len(RowsWith(t, col, v))

\* The non-null values of resolution_time_days, in table order.
ResolutionTimes(t) ==
    LET known == SelectSeq(t, LAMBDA r : r.resolution_time_days # None)
    IN  [i \in 1..Len(known) |-> known[i].resolution_time_days[1]]

\* Series.mean(): NaN for no values.
Mean(values) ==
    IF values = << >> THEN NaN ELSE <<Frac(SumSeq(values), Len(values))>>

\* Variants of the overview: one that takes pending as the remainder, and
\* one that computes the counts of an empty table instead of returning {}.
get_overview_metrics_threeway(t) ==
    IF t = EmptyTable THEN EmptyDict
    ELSE LET total_tickets == Len(t)
             resolved_tickets == CountWith(t, "status_category", "Resolved")
             active_tickets == CountWith(t, "status_category", "Active")
             times == ResolutionTimes(t)
         IN  [total_tickets |-> total_tickets,
              active_tickets |-> active_tickets,
              resolved_tickets |-> resolved_tickets,
              pending_tickets |-> total_tickets - active_tickets - resolved_tickets,
              avg_resolution_time |->
                  IF times # << >> THEN Mean(times)[1] ELSE Frac(0, 1),
              resolution_rate |->
                  IF total_tickets > 0 THEN Frac(resolved_tickets * 100, total_tickets)
                  ELSE Frac(0, 1)]

get_overview_metrics_zeroed(t) ==
    LET total_tickets == Len(t)
        resolved_tickets == CountWith(t, "status_category", "Resolved")
        times == ResolutionTimes(t)
    IN  [total_tickets |-> total_tickets,
         active_tickets |-> CountWith(t, "status_category", "Active"),
         resolved_tickets |-> resolved_tickets,
         pending_tickets |-> CountWith(t, "status_category", "Pending"),
         avg_resolution_time |->
             IF times # << >> THEN Mean(times)[1] ELSE Frac(0, 1),
         resolution_rate |->
             IF total_tickets > 0 THEN Frac(resolved_tickets * 100, total_tickets)
             ELSE Frac(0, 1)]

\* Variant that averages resolution_time_days over all rows of the table.
get_overview_metrics_allrows(t) ==
    IF t = EmptyTable THEN EmptyDict
    ELSE LET total_tickets == Len(t)
             resolved_tickets == CountWith(t, "status_category", "Resolved")
             times == ResolutionTimes(t)
         IN  [total_tickets |-> total_tickets,
              active_tickets |-> CountWith(t, "status_category", "Active"),
              resolved_tickets |-> resolved_tickets,
              pending_tickets |-> CountWith(t, "status_category", "Pending"),
              avg_resolution_time |->
                  IF times # << >> THEN Frac(SumSeq(times), total_tickets)
                  ELSE Frac(0, 1),
              resolution_rate |->
                  IF total_tickets > 0 THEN Frac(resolved_tickets * 100, total_tickets)
                  ELSE Frac(0, 1)]

get_overview_metrics(t) ==
    IF t = EmptyTable THEN EmptyDict
    ELSE LET total_tickets == Len(t)
             resolved_tickets == CountWith(t, "status_category", "Resolved")
             times == ResolutionTimes(t)
         IN  [total_tickets |-> total_tickets,
              active_tickets |-> CountWith(t, "status_category", "Active"),
              resolved_tickets |-> resolved_tickets,
              pending_tickets |-> CountWith(t, "status_category", "Pending"),
              avg_resolution_time |->
                  IF times # << >> THEN Mean(times)[1] ELSE Frac(0, 1),
              resolution_rate |->
                  IF total_tickets > 0 THEN Frac(resolved_tickets * 100, total_tickets)
                  ELSE Frac(0, 1)]

\* The placeholder returned for a table with rows.
EpicPlaceholder ==
    [epic_count |-> 0, epic_tickets |-> EmptyDict, epic_progress |-> EmptyDict]

\* Variant that returns the placeholder for the empty table too.
get_epic_analytics_always(t) == EpicPlaceholder

get_epic_analytics(t) ==
    IF t = EmptyTable THEN EmptyDict ELSE EpicPlaceholder

\* Alphabetical order of the names that occur as group keys.
Lexicon ==
    <<"Amy", "Ann", "Ben", "Bob", "Cal", "Dee", "Eve", "Fay", "Gus", "Hal",
      "Ida", "Jon", "Kit", "Lou", "Max", "OPS", "PRJ", "Unassigned">>
RankOf(name) == CHOOSE i \in 1..Len(Lexicon) : Lexicon[i] = name

\* groupby sorts the group keys.
RECURSIVE SortedKeys(_)
SortedKeys(K) ==
    IF K = {} THEN << >>
    ELSE LET k == CHOOSE x \in K : \A y \in K : RankOf(x) <= RankOf(y)
         IN  <<k>> \o SortedKeys(K \ {k})

Remove(s, i) == SubSeq(s, 1, i - 1) \o SubSeq(s, i + 1, Len(s))
FirstN(s, n) == SubSeq(s, 1, IF n < Len(s) THEN n ELSE Len(s))

\* Rows ordered by an integer column, ties in their given order.
RECURSIVE SortDescBy(_, _)
SortDescBy(s, col) ==
    IF s = << >> THEN << >>
    ELSE LET i == CHOOSE i \in 1..Len(s) :
                    /\ \A j \in 1..Len(s) : s[j][col] <= s[i][col]
                    /\ \A j \in 1..(i - 1) : s[j][col] < s[i][col]
         IN  <<s[i]>> \o SortDescBy(Remove(s, i), col)

RECURSIVE SortAscBy(_, _)
SortAscBy(s, col) ==
    IF s = << >> THEN << >>
    ELSE LET i == CHOOSE i \in 1..Len(s) :
                    /\ \A j \in 1..Len(s) : s[j][col] >= s[i][col]
                    /\ \A j \in 1..(i - 1) : s[j][col] > s[i][col]
         IN  <<s[i]>> \o SortAscBy(Remove(s, i), col)

\* round(1) of 100 * n / d, in tenths (ties to the even tenth).
RoundTenths(n, d) ==
    LET q == (1000 * n) \div d
        r == (1000 * n) % d
    IN  IF 2 * r < d THEN q
        ELSE IF 2 * r > d THEN q + 1
        ELSE IF q % 2 = 0 THEN q ELSE q + 1

\* Variant that counts as resolved the rows that are not.
GroupRow_open(t, col, k) ==
    LET g == RowsWith(t, col, k)
        resolved == Len(g) - CountWith(g, "status_category", "Resolved")
    IN  [name |-> k,
         total_tickets |-> Len(g),
         avg_resolution_time |-> Mean(ResolutionTimes(g)),
         avg_priority |-> Frac(SumSeq([i \in 1..Len(g) |-> g[i].priority_score]), Len(g)),
         resolved_tickets |-> resolved,
         rate |-> RoundTenths(resolved, Len(g))]

\* One row of the groupby(col).agg(...) frame, for group key k. The rate
\* is kept in tenths of a percent.
GroupRow(t, col, k) ==
    LET g == RowsWith(t, col, k)
        resolved == CountWith(g, "status_category", "Resolved")
    IN  [name |-> k,
         total_tickets |-> Len(g),
         avg_resolution_time |-> Mean(ResolutionTimes(g)),
         avg_priority |-> Frac(SumSeq([i \in 1..Len(g) |-> g[i].priority_score]), Len(g)),
         resolved_tickets |-> resolved,
         rate |-> RoundTenths(resolved, Len(g))]

\* The frame of all groups, sorted by total_tickets descending.
GroupStats(t, col) ==
    LET keys == SortedKeys({t[i][col] : i \in 1..Len(t)})
    IN  SortDescBy([i \in 1..Len(keys) |-> GroupRow(t, col, keys[i])], "total_tickets")

AtLeast3(stats) == SelectSeq(stats, LAMBDA g : g.total_tickets >= 3)

\* Variant that ranks every group by rate, whatever its number of tickets.
get_assignee_analytics_unfiltered(t) ==
    IF t = EmptyTable THEN EmptyDict
    ELSE LET assignee_stats == GroupStats(t, "assignee")
         IN  [assignee_stats |-> assignee_stats,
              top_assignees |-> FirstN(assignee_stats, 10),
              most_efficient |-> FirstN(SortDescBy(assignee_stats, "rate"), 5),
              slowest_resolvers |-> FirstN(SortAscBy(assignee_stats, "rate"), 5)]

get_assignee_analytics(t) ==
    IF t = EmptyTable THEN EmptyDict
    ELSE LET assignee_stats == GroupStats(t, "assignee")
         IN  [assignee_stats |-> assignee_stats,
              top_assignees |-> FirstN(assignee_stats, 10),
              most_efficient |-> FirstN(SortDescBy(AtLeast3(assignee_stats), "rate"), 5),
              slowest_resolvers |-> FirstN(SortAscBy(AtLeast3(assignee_stats), "rate"), 5)]

get_project_analytics(t) ==
    IF t = EmptyTable THEN EmptyDict
    ELSE LET project_stats == GroupStats(t, "project")
         IN  [project_stats |-> project_stats,
              most_active_projects |-> FirstN(project_stats, 10),
              most_completed_projects |-> FirstN(SortDescBy(project_stats, "rate"), 5),
              project_count |-> Len(project_stats)]

\* value_counts of a column: value -> number of rows.
ValueCounts(t, col) ==
    [v \in {t[i][col] : i \in 1..Len(t)} |-> CountWith(t, col, v)]

\* groupby([a, b]).size().unstack(fill_value=0): a -> b -> number of rows.
CrossTab(t, a, b) ==
    [x \in {t[i][a] : i \in 1..Len(t)} |->
        [y \in {t[i][b] : i \in 1..Len(t)} |-> CountWith(RowsWith(t, a, x), b, y)]]

get_status_analytics(t) ==
    IF t = EmptyTable THEN EmptyDict
    ELSE [status_distribution |-> ValueCounts(t, "status"),
          status_category_distribution |-> ValueCounts(t, "status_category"),
          status_flow |-> CrossTab(t, "status_category", "project"),
          status_count |-> Cardinality(DOMAIN ValueCounts(t, "status"))]

RECURSIVE SortInts(_)
SortInts(s) ==
    IF s = << >> THEN << >>
    ELSE LET i == CHOOSE i \in 1..Len(s) : \A j \in 1..Len(s) : s[i] <= s[j]
         IN  <<s[i]>> \o SortInts(Remove(s, i))

Median(values) ==
    LET v == SortInts(values)
        n == Len(v)
    IN  IF n = 0 THEN NaN
        ELSE IF n % 2 = 1 THEN <<Frac(v[(n + 1) \div 2], 1)>>
        ELSE <<Frac(v[n \div 2] + v[n \div 2 + 1], 2)>>

get_priority_analytics(t) ==
    IF t = EmptyTable THEN EmptyDict
    ELSE [priority_distribution |-> ValueCounts(t, "priority"),
          priority_by_project |-> CrossTab(t, "project", "priority"),
          priority_resolution_times |->
              [p \in {t[i].priority : i \in 1..Len(t)} |->
                  LET times == ResolutionTimes(RowsWith(t, "priority", p))
                  IN  [mean |-> Mean(times), median |-> Median(times),
                       count |-> Len(times)]]]

\* Monday 00:00 of the week of 'created' (day 0 of the epoch is a Monday).
week_start(row) ==
    IF row.created = NaT THEN NaT
    ELSE LET day == row.created[1] \div HoursPerDay
         IN  <<(day - (day % 7)) * HoursPerDay, row.created[2]>>

\* The table after get_trend_analytics has assigned df['week_start'].
WithWeekStart(t) ==
    [i \in 1..Len(t) |->
        [c \in DOMAIN t[i] \cup {"week_start"} |->
            IF c = "week_start" THEN week_start(t[i]) ELSE t[i][c]]]

\* Position of a group key in the sorted index of a groupby.
Ord(col, v) ==
    CASE col = "created_date" -> v[1]
      [] col = "created_month" -> v[1] * 12 + v[2]
      [] OTHER -> Instant(v)

RECURSIVE SetToSeq(_)
SetToSeq(S) ==
    IF S = {} THEN << >>
    ELSE LET x == CHOOSE x \in S : TRUE IN <<x>> \o SetToSeq(S \ {x})

\* groupby(col).size().reset_index(name=...): one entry per non-null value
\* of the column, in ascending order, with the number of rows.
SizeBy(t, col) ==
    LET keys == {t[i][col] : i \in 1..Len(t)} \ {NaT}
        entries == SetToSeq({[key |-> k, ord |-> Ord(col, k),
                              n |-> CountWith(t, col, k)] : k \in keys})
    IN  SortAscBy(entries, "ord")

Counts(groups) == [i \in 1..Len(groups) |-> groups[i].n]

\* Variant that returns the slope as it is.
_calculate_trend_raw(series) ==
    IF Len(series) < 2 THEN Frac(0, 1)
    ELSE LET n == Len(series)
             Sx == SumSeq([i \in 1..n |-> i - 1])
             Sxx == SumSeq([i \in 1..n |-> (i - 1) * (i - 1)])
             Sy == SumSeq(series)
             Sxy == SumSeq([i \in 1..n |-> (i - 1) * series[i]])
         IN  Frac(n * Sxy - Sx * Sy, n * Sxx - Sx * Sx)

\* Least-squares slope of the series against 0..n-1, divided by
\* max(|slope|, 1).
_calculate_trend(series) ==
    IF Len(series) < 2 THEN Frac(0, 1)
    ELSE LET n == Len(series)
             Sx == SumSeq([i \in 1..n |-> i - 1])
             Sxx == SumSeq([i \in 1..n |-> (i - 1) * (i - 1)])
             Sy == SumSeq(series)
             Sxy == SumSeq([i \in 1..n |-> (i - 1) * series[i]])
             num == n * Sxy - Sx * Sy
             den == n * Sxx - Sx * Sx
             abs == IF num < 0 THEN -num ELSE num
         IN  IF abs <= den THEN Frac(num, den) ELSE Frac(num, abs)

get_trend_analytics(t) ==
    IF t = EmptyTable THEN EmptyDict
    ELSE LET w == WithWeekStart(t)
             daily_creation == SizeBy(w, "created_date")
             resolved_df == SelectSeq(w, LAMBDA r : r.is_resolved)
             daily_resolution ==
                 IF resolved_df # << >> THEN SizeBy(resolved_df, "updated") ELSE << >>
         IN  [daily_creation |-> daily_creation,
              weekly_creation |-> SizeBy(w, "week_start"),
              monthly_creation |-> SizeBy(w, "created_month"),
              daily_resolution |-> daily_resolution,
              creation_trend |-> _calculate_trend(Counts(daily_creation)),
              resolution_trend |->
                  IF daily_resolution # << >>
                  THEN _calculate_trend(Counts(daily_resolution))
                  ELSE Frac(0, 1)]

----------------------------------------------------------------------------
(* Inputs of the cache specification                                       *)

ScenarioIssues ==
    << Issue("K-1", "Done", "Amy", "PRJ", "High", <<0, 0, 0>>, <<4, 0, 0>>),
       Issue("K-2", "To Do", "Amy", "PRJ", "Low", <<1, 0, 0>>, <<1, 0, 0>>) >>

OtherIssues ==
    << Issue("K-3", "In Progress", "", "OPS", "", <<2, 9, 0>>, <<3, 8, 0>>) >>

\* Two tickets created on either side of a daylight-saving change.
MixedIssues ==
    << Issue("K-4", "Done", "Bob", "PRJ", "Medium", <<0, 10, 0>>, <<2, 10, 1>>),
       Issue("K-5", "Open", "Bob", "PRJ", "Low", <<5, 10, 1>>, <<6, 10, 1>>) >>

IssueLists == {<< >>, ScenarioIssues, OtherIssues, MixedIssues}

\* Tickets of three assignees, none of them with three tickets: Amy has two
\* (one resolved after 4 days), Bob one (resolved after 1 day), and one,
\* unresolved, is unassigned.
TeamIssues ==
    << Issue("K-1", "Done", "Amy", "PRJ", "High", <<0, 0, 0>>, <<4, 0, 0>>),
       Issue("K-2", "To Do", "Amy", "PRJ", "Low", <<1, 0, 0>>, <<1, 0, 0>>),
       Issue("K-3", "Done", "Bob", "OPS", "Medium", <<1, 22, 0>>, <<3, 2, 0>>),
       Issue("K-4", "In Progress", "", "OPS", "", <<2, 9, 0>>, <<3, 8, 0>>) >>

\* Tickets most of which are unassigned: two of them, and one of Amy.
CrowdIssues ==
    << Issue("K-1", "In Progress", "", "OPS", "", <<2, 9, 0>>, <<3, 8, 0>>),
       Issue("K-2", "Done", "", "OPS", "Low", <<1, 0, 0>>, <<3, 0, 0>>),
       Issue("K-3", "Done", "Amy", "PRJ", "High", <<0, 0, 0>>, <<4, 0, 0>>) >>

\* What the source has when the tool layer asks.
ToolIssueLists == {<< >>, TeamIssues, MixedIssues, CrowdIssues}

Responses ==
    {[kind |-> "api_error", issues |-> << >>]}
        \cup {[kind |-> "ok", issues |-> l] : l \in IssueLists}

----------------------------------------------------------------------------
(* Freshness controller: JiraAnalytics.get_fresh_data                      *)

\* Exceptions the handler of get_fresh_data catches.
Caught == {"ConnectionError", "ValueError", "KeyError"}

\* Builds of the pandas dependency (the repository pins none).
PandasBuilds == {"2.x", "3.x"}

\* The exception parsing and enrichment raise on a non-empty ticket list,
\* "None" when they complete. Timestamps with differing UTC offsets: pandas
\* 3 refuses them in to_datetime (ValueError); pandas 2 returns a column of
\* plain objects, on which the .dt accessor of _calculate_metrics, applied
\* to 'created', raises AttributeError.
EnrichException(tickets, build) ==
    IF build = "3.x"
    THEN IF MixedOffsets(tickets, "created") \/ MixedOffsets(tickets, "updated")
         THEN "ValueError" ELSE "None"
    ELSE IF MixedOffsets(tickets, "created") THEN "AttributeError" ELSE "None"

\* The ticket lists search_tickets can hand to get_fresh_data.
FetchedLists ==
    {search_tickets("client", [kind |-> "ok", issues |-> l]) :
        l \in IssueLists \cup ToolIssueLists}

\* pd.DataFrame(tickets) followed by _calculate_metrics, tabulated over the
\* fetched lists so that each table is computed once.
EnrichedTable ==
    [t \in FetchedLists |-> _calculate_metrics(ParseDates(t))]

\* EnrichException tabulated over the fetched lists and the builds.
EnrichRaises ==
    [t \in FetchedLists |-> [b \in PandasBuilds |-> EnrichException(t, b)]]

\* What the source did, as seen from outside the engine.
SourceKind(j, resp) ==
    IF j = "None" \/ resp.kind # "ok" THEN "failed"
    ELSE IF resp.issues = << >> THEN "empty" ELSE "records"

\* Variant of the condition that still serves a table whose age has reached
\* cache_duration.
CacheHit_late(force_refresh, now) ==
    /\ ~force_refresh
    /\ cache_timestamp # None
    /\ now - cache_timestamp[1] <= cache_duration
    /\ "tickets" \in DOMAIN data_cache

\* Variants of the condition: a shorter freshness window, and one that
\* ignores the force flag.
CacheHit_short(force_refresh, now) ==
    /\ ~force_refresh
    /\ cache_timestamp # None
    /\ now - cache_timestamp[1] + 1 < cache_duration
    /\ "tickets" \in DOMAIN data_cache

CacheHit_noforce(force_refresh, now) ==
    /\ cache_timestamp # None
    /\ now - cache_timestamp[1] < cache_duration
    /\ "tickets" \in DOMAIN data_cache

\* The condition under which the cached table is returned.
CacheHit(force_refresh, now) ==
    /\ ~force_refresh
    /\ cache_timestamp # None
    /\ now - cache_timestamp[1] < cache_duration
    /\ "tickets" \in DOMAIN data_cache

Outcome(ret, raised, fetched, cache, ts) ==
    [ret |-> ret, raised |-> raised, fetched |-> fetched,
     data_cache |-> cache, cache_timestamp |-> ts]

\* The dict d after d[k] = v.
SetItem(d, k, v) == [x \in DOMAIN d \cup {k} |-> IF x = k THEN v ELSE d[x]]

\* Variant of the refresh path that stamps the table with the time left
\* until the clock reads cache_duration.
Refresh_countdown(now, resp, build) ==
    LET tickets == search_tickets(jira, resp)
        exc == EnrichRaises[tickets][build]
        table == EnrichedTable[tickets]
    IN  IF tickets = << >>
        THEN Outcome(EmptyTable, "None", 1, data_cache, cache_timestamp)
        ELSE IF exc \in Caught
        THEN Outcome(EmptyTable, "None", 1, data_cache, cache_timestamp)
        ELSE IF exc # "None"
        THEN Outcome(EmptyTable, exc, 1, data_cache, cache_timestamp)
        ELSE Outcome(table, "None", 1, SetItem(data_cache, "tickets", table),
                     <<cache_duration - now>>)

\* Variant of the refresh path that stores the table and leaves the
\* timestamp as it was.
Refresh_tableonly(now, resp, build) ==
    LET tickets == search_tickets(jira, resp)
        exc == EnrichRaises[tickets][build]
        table == EnrichedTable[tickets]
    IN  IF tickets = << >>
        THEN Outcome(EmptyTable, "None", 1, data_cache, cache_timestamp)
        ELSE IF exc \in Caught
        THEN Outcome(EmptyTable, "None", 1, data_cache, cache_timestamp)
        ELSE IF exc # "None"
        THEN Outcome(EmptyTable, exc, 1, data_cache, cache_timestamp)
        ELSE Outcome(table, "None", 1, SetItem(data_cache, "tickets", table),
                     cache_timestamp)

\* Variants of the refresh path: one that stores the empty result, and one
\* that drops the cache when the source has nothing.
Refresh_pin(now, resp, build) ==
    LET tickets == search_tickets(jira, resp)
        exc == EnrichException(tickets, build)
        table == _calculate_metrics(ParseDates(tickets))
    IN  IF exc \in Caught
        THEN Outcome(EmptyTable, "None", 1, data_cache, cache_timestamp)
        ELSE IF exc # "None"
        THEN Outcome(EmptyTable, exc, 1, data_cache, cache_timestamp)
        ELSE Outcome(table, "None", 1, SetItem(data_cache, "tickets", table), <<now>>)

Refresh_clear(now, resp, build) ==
    LET tickets == search_tickets(jira, resp)
        exc == EnrichException(tickets, build)
        table == _calculate_metrics(ParseDates(tickets))
    IN  IF tickets = << >>
        THEN Outcome(EmptyTable, "None", 1, EmptyDict, None)
        ELSE IF exc \in Caught
        THEN Outcome(EmptyTable, "None", 1, data_cache, cache_timestamp)
        ELSE IF exc # "None"
        THEN Outcome(EmptyTable, exc, 1, data_cache, cache_timestamp)
        ELSE Outcome(table, "None", 1, SetItem(data_cache, "tickets", table), <<now>>)

\* The refresh path of get_fresh_data (the try block and its handler).
Refresh(now, resp, build) ==
    LET tickets == search_tickets(jira, resp)
        exc == EnrichRaises[tickets][build]
        table == EnrichedTable[tickets]
    IN  IF tickets = << >>
        THEN Outcome(EmptyTable, "None", 1, data_cache, cache_timestamp)
        ELSE IF exc \in Caught
        THEN Outcome(EmptyTable, "None", 1, data_cache, cache_timestamp)
        ELSE IF exc # "None"
        THEN Outcome(EmptyTable, exc, 1, data_cache, cache_timestamp)
        ELSE Outcome(table, "None", 1, SetItem(data_cache, "tickets", table), <<now>>)

\* Variant of the call that never answers from the cache.
get_fresh_data_nocache(force_refresh, now, resp, build) ==
    Refresh(now, resp, build)

\* The whole call: what it returns or raises, how often it invokes
\* search_tickets, and the cache it leaves.
get_fresh_data(force_refresh, now, resp, build) ==
    IF CacheHit(force_refresh, now)
    THEN Outcome(data_cache["tickets"], "None", 0, data_cache, cache_timestamp)
    ELSE Refresh(now, resp, build)

----------------------------------------------------------------------------
(* Report assembly: JiraAnalytics.generate_comprehensive_report            *)

NoData == [error |-> "No data available"]

\* The seven analytics of the bundle, in the order the code calls them:
\* get_trend_analytics adds week_start to t before the last three read it.
Analytics(t) ==
    [overview |-> get_overview_metrics(t),
     assignees |-> get_assignee_analytics(t),
     projects |-> get_project_analytics(t),
     trends |-> get_trend_analytics(t),
     status |-> get_status_analytics(WithWeekStart(t)),
     priority |-> get_priority_analytics(WithWeekStart(t)),
     epics |-> get_epic_analytics(WithWeekStart(t))]

\* The tables data_cache can hold: an enriched table as get_fresh_data stored
\* it, or the same table after a report added week_start to it.
CachedTables ==
    LET stored == {EnrichedTable[t] : t \in FetchedLists} \ {EmptyTable}
    IN  stored \cup {WithWeekStart(t) : t \in stored}

\* Analytics and WithWeekStart tabulated over the cached tables, so that each
\* is computed once.
AnalyticsOf == [t \in CachedTables |-> Analytics(t)]

WeekStartOf == [t \in CachedTables |-> WithWeekStart(t)]

\* get_assignee_analytics tabulated over the cached tables.
AssigneeAnalyticsOf == [t \in CachedTables |-> get_assignee_analytics(t)]

\* Variant of the bundle that reports the freshness as unknown.
Bundle_unstamped(t, ts) ==
    AnalyticsOf[t] @@ [
     data_freshness |-> None,
     total_records |-> Len(t)]

\* The bundle built from table t; ts is cache_timestamp after the fetch.
Bundle(t, ts) ==
    AnalyticsOf[t] @@ [
     data_freshness |-> ts,
     total_records |-> Len(t)]

\* Variant that puts the record count next to the error indicator.
generate_comprehensive_report_counted(r) ==
    IF r.raised # "None" THEN [raised |-> r.raised]
    ELSE IF r.ret = EmptyTable THEN [error |-> "No data available", total_records |-> 0]
    ELSE Bundle(r.ret, r.cache_timestamp)

\* r is the outcome of the get_fresh_data call the report starts with.
generate_comprehensive_report(r) ==
    IF r.raised # "None" THEN [raised |-> r.raised]
    ELSE IF r.ret = EmptyTable THEN NoData
    ELSE Bundle(r.ret, r.cache_timestamp)

\* The cache once the report is built: the table the trend report worked on
\* is the cached object, and now carries the week_start column.
CacheAfterReport(r) ==
    IF r.raised # "None" \/ r.ret = EmptyTable THEN r.data_cache
    ELSE SetItem(r.data_cache, "tickets", WeekStartOf[r.ret])

\* What a call meets: the server's response and the pandas build. The build
\* makes a difference only for timestamps with mixed offsets.
Environments ==
    {e \in Responses \X PandasBuilds :
        e[2] = "2.x" \/ MixedOffsets(e[1].issues, "created")
                    \/ MixedOffsets(e[1].issues, "updated")}

----------------------------------------------------------------------------
(* The cache specification                                                 *)

\* A tool-layer call: the operation, its arguments (those it does not take
\* left blank), the dtype of the group means it met, and what it returned.
ToolCall(name, metric, limit, min_tickets, query, dtype, reply) ==
    [op |-> name, metric |-> metric, limit |-> limit,
     min_tickets |-> min_tickets, query |-> query, dtype |-> dtype,
     reply |-> reply]

\* No tool-layer operation has been called.
NoResponse ==
    ToolCall("none", "", << >>, << >>, "", "object",
             [text |-> "", detail |-> "", lines |-> << >>, raised |-> "None"])

\* The callers that may run get_fresh_data concurrently on one engine.
Callers == {1, 2}

\* Locals of a caller that has not entered get_fresh_data.
NoLocals == [now |-> 0, df |-> EmptyTable, stored |-> FALSE]

\* got is the list search_tickets handed back (empty when it was not
\* invoked), ret and raised are what get_fresh_data returned or raised, and
\* produced is the now of the call in which the table the engine holds was
\* fetched (None while it holds none).
NoCall ==
    [force |-> FALSE, now |-> 0, via |-> "none", src |-> "none",
     fetched |-> 0, got |-> << >>, ret |-> EmptyTable, raised |-> "None",
     produced |-> None,
     pre_cache |-> EmptyDict, pre_ts |-> None,
     post_cache |-> EmptyDict, post_ts |-> None]

Observe(force_refresh, resp, via, r) ==
    [force |-> force_refresh, now |-> clock, via |-> via,
     src |-> IF r.fetched = 0 THEN "none" ELSE SourceKind(jira, resp),
     fetched |-> r.fetched,
     got |-> IF r.fetched = 0 THEN << >> ELSE search_tickets(jira, resp),
     ret |-> r.ret, raised |-> r.raised,
     produced |-> IF r.fetched = 1 /\ r.ret # EmptyTable
                  THEN <<clock>> ELSE last.produced,
     pre_cache |-> data_cache, pre_ts |-> cache_timestamp,
     post_cache |-> r.data_cache, post_ts |-> r.cache_timestamp]

\* How a call ended: it raised, it answered with a table, it answered with
\* the empty table because the source had nothing to give ("nodata") or
\* because an exception was caught ("caught").
KindOf(c) ==
    IF c.via = "none" THEN "none"
    ELSE IF c.raised # "None" THEN "raised"
    ELSE IF c.ret # EmptyTable THEN "table"
    ELSE IF c.src \in {"failed", "empty"} THEN "nodata"
    ELSE "caught"

\* What is kept of a call once the next one is made.
Before(c) == [force |-> c.force, kind |-> KindOf(c)]

Init ==
    /\ jira \in {"client", "None"}
    /\ clock = 0
    /\ data_cache = EmptyDict
    /\ cache_timestamp = None
    /\ calls = 0
    /\ reports = 0
    /\ last = NoCall
    /\ prev = Before(NoCall)
    /\ report = EmptyDict
    /\ df = EmptyTable
    /\ op = "none"
    /\ out = EmptyDict
    /\ raw_tickets = << >>
    /\ trend_series = << >>
    /\ direction = Frac(0, 1)
    /\ response = NoResponse
    /\ pc = [p \in Callers |-> "idle"]
    /\ local = [p \in Callers |-> NoLocals]

\* Time passes between calls. Only differences of time matter to the
\* engine, so the clock is started by the first call.
Tick ==
    /\ clock < MaxClock
    /\ 1 <= calls /\ calls < MaxCalls
    /\ clock' = clock + 1
    /\ UNCHANGED <<jira, data_cache, cache_timestamp, calls, reports, last,
                   prev, report, df, op, out, raw_tickets, trend_vars,
                   tool_vars, race_vars>>

\* A direct call of get_fresh_data(force_refresh).
GetFreshData(force_refresh, resp, build) ==
    /\ calls < MaxCalls
    /\ \E r \in {get_fresh_data(force_refresh, clock, resp, build)} :
           /\ data_cache' = r.data_cache
           /\ cache_timestamp' = r.cache_timestamp
           /\ last' = Observe(force_refresh, resp, "direct", r)
    /\ prev' = Before(last)
    /\ calls' = calls + 1
    /\ report' = EmptyDict
    /\ UNCHANGED <<jira, clock, reports, df, op, out, raw_tickets, trend_vars,
                   tool_vars, race_vars>>

\* A call of generate_comprehensive_report(force_refresh).
GenerateComprehensiveReport(force_refresh, resp, build) ==
    /\ calls < MaxCalls
    /\ reports < MaxReports
    /\ \E r \in {get_fresh_data(force_refresh, clock, resp, build)} :
           /\ data_cache' = CacheAfterReport(r)
           /\ cache_timestamp' = r.cache_timestamp
           /\ last' = Observe(force_refresh, resp, "report", r)
           /\ report' = generate_comprehensive_report(r)
    /\ prev' = Before(last)
    /\ calls' = calls + 1
    /\ reports' = reports + 1
    /\ UNCHANGED <<jira, clock, df, op, out, raw_tickets, trend_vars, tool_vars,
                   race_vars>>

Next ==
    \/ Tick
    \/ \E f \in BOOLEAN, e \in Environments : GetFreshData(f, e[1], e[2])
    \/ \E f \in BOOLEAN, e \in Environments :
          GenerateComprehensiveReport(f, e[1], e[2])

Spec == Init /\ [][Next]_vars

----------------------------------------------------------------------------
(* The report specification: enrichment and the seven report operations    *)
(* applied to tables of up to MaxRows tickets of every status.             *)

\* The statuses the lookup names, and some it does not.
Statuses ==
    {"Done", "Closed", "Resolved", "Completed",
     "In Progress", "Active", "Development",
     "To Do", "Open", "New", "Backlog",
     "Blocked", "In Review", "done"}

Keys == <<"K-1", "K-2", "K-3", "K-4">>

\* Ticket lists of n issues, one for every choice of statuses.
TicketLists(n) ==
    {search_tickets("client",
        [kind |-> "ok",
         issues |-> [i \in 1..n |->
            Issue(Keys[i], st[i], "Amy", "PRJ", "High", <<i, 9, 0>>, <<i + 3, 8, 0>>)]]) :
        st \in [1..n -> Statuses]}

ReportInputs == UNION {TicketLists(n) : n \in 0..MaxRows}

ReportOps ==
    {"overview", "assignee", "project", "trend", "status", "priority", "epic"}

InitReports ==
    /\ jira = "client"
    /\ clock = 0
    /\ data_cache = EmptyDict
    /\ cache_timestamp = None
    /\ calls = 0
    /\ reports = 0
    /\ last = NoCall
    /\ prev = Before(NoCall)
    /\ report = EmptyDict
    /\ df \in ReportInputs
    /\ op = "raw"
    /\ out = EmptyDict
    /\ raw_tickets = << >>
    /\ trend_series = << >>
    /\ direction = Frac(0, 1)
    /\ response = NoResponse
    /\ pc = [p \in Callers |-> "idle"]
    /\ local = [p \in Callers |-> NoLocals]

Frame == UNCHANGED <<jira, clock, data_cache, cache_timestamp, calls, reports,
                     last, prev, report, trend_vars, tool_vars, race_vars>>

\* Date parsing and enrichment of the fetched tickets.
Enrich ==
    /\ op = "raw"
    /\ raw_tickets' = df
    /\ df' = _calculate_metrics(ParseDates(df))
    /\ op' = "enriched"
    /\ out' = EmptyDict
    /\ Frame

Overview ==
    /\ op # "raw"
    /\ out' = get_overview_metrics(df)
    /\ op' = "overview"
    /\ raw_tickets' = raw_tickets
    /\ df' = df
    /\ Frame

Assignee ==
    /\ op # "raw"
    /\ out' = get_assignee_analytics(df)
    /\ op' = "assignee"
    /\ raw_tickets' = raw_tickets
    /\ df' = df
    /\ Frame

Project ==
    /\ op # "raw"
    /\ out' = get_project_analytics(df)
    /\ op' = "project"
    /\ raw_tickets' = raw_tickets
    /\ df' = df
    /\ Frame

\* get_trend_analytics assigns the week_start column of the table it is
\* given, unless the table is empty.
Trend ==
    /\ op # "raw"
    /\ out' = get_trend_analytics(df)
    /\ op' = "trend"
    /\ raw_tickets' = raw_tickets
    /\ df' = IF df = EmptyTable THEN df ELSE WithWeekStart(df)
    /\ Frame

Status ==
    /\ op # "raw"
    /\ out' = get_status_analytics(df)
    /\ op' = "status"
    /\ raw_tickets' = raw_tickets
    /\ df' = df
    /\ Frame

Priority ==
    /\ op # "raw"
    /\ out' = get_priority_analytics(df)
    /\ op' = "priority"
    /\ raw_tickets' = raw_tickets
    /\ df' = df
    /\ Frame

Epic ==
    /\ op # "raw"
    /\ out' = get_epic_analytics(df)
    /\ op' = "epic"
    /\ raw_tickets' = raw_tickets
    /\ df' = df
    /\ Frame

NextReports ==
    \/ Enrich
    \/ Overview
    \/ Assignee
    \/ Project
    \/ Trend
    \/ Status
    \/ Priority
    \/ Epic

SpecReports == InitReports /\ [][NextReports]_vars

----------------------------------------------------------------------------
(* The enrichment specification: enrichment and the report operations      *)
(* applied to tickets whose timestamps differ in time of day or do not     *)
(* parse.                                                                  *)

\* The issues the lists are drawn from. The first two are the scenario of
\* ScenarioIssues; the third is resolved 28 hours after its creation, late
\* on one day and early on the next but one; the fourth and fifth carry a
\* timestamp text that is no date.
TimedIssues ==
    << Issue("", "Done", "Amy", "PRJ", "High", <<0, 0, 0>>, <<4, 0, 0>>),
       Issue("", "To Do", "Amy", "PRJ", "Low", <<1, 0, 0>>, <<1, 0, 0>>),
       Issue("", "Done", "Bob", "PRJ", "Medium", <<1, 22, 0>>, <<3, 2, 0>>),
       Issue("", "Closed", "Bob", "OPS", "", << >>, <<2, 8, 0>>),
       Issue("", "Done", "", "OPS", "High", <<2, 9, 0>>, << >>),
       Issue("", "In Progress", "Bob", "OPS", "Low", <<3, 5, 0>>, <<3, 6, 0>>) >>

\* Ticket lists of n issues, one for every choice among TimedIssues.
TimedLists(n) ==
    {search_tickets("client",
        [kind |-> "ok",
         issues |-> [i \in 1..n |-> [TimedIssues[c[i]] EXCEPT !.key = Keys[i]]]]) :
        c \in [1..n -> 1..Len(TimedIssues)]}

EnrichInputs == UNION {TimedLists(n) : n \in 0..MaxRows}

InitEnrich ==
    /\ jira = "client"
    /\ clock = 0
    /\ data_cache = EmptyDict
    /\ cache_timestamp = None
    /\ calls = 0
    /\ reports = 0
    /\ last = NoCall
    /\ prev = Before(NoCall)
    /\ report = EmptyDict
    /\ df \in EnrichInputs
    /\ op = "raw"
    /\ out = EmptyDict
    /\ raw_tickets = << >>
    /\ trend_series = << >>
    /\ direction = Frac(0, 1)
    /\ response = NoResponse
    /\ pc = [p \in Callers |-> "idle"]
    /\ local = [p \in Callers |-> NoLocals]

SpecEnrich == InitEnrich /\ [][NextReports]_vars

----------------------------------------------------------------------------
(* The team specification: enrichment and the report operations applied to *)
(* the tickets of up to MaxGroups assignees, each with one to four tickets *)
(* of which some are resolved.                                             *)

Members ==
    <<"Ann", "Ben", "Cal", "Dee", "Eve", "Fay", "Gus", "Hal", "Ida", "Jon",
      "Kit", "Lou", "Max">>

\* How the tickets are spread: member i has 1 + (a*i + b) % 4 tickets, of
\* which (c*i) % (tickets + 1) are resolved.
Spreads == {<<a, b, c>> : a \in {0, 1, 3}, b \in {0, 2}, c \in {0, 1, 2}}

TicketsOf(i, sp) == 1 + ((sp[1] * i + sp[2]) % 4)
ResolvedOf(i, sp) == (sp[3] * i) % (TicketsOf(i, sp) + 1)

\* The issues of member i: the resolved ones first. Members alternate
\* between the two projects. Ticket k is updated k days after its creation,
\* at an hour that depends on k, so that tickets of different members are
\* updated on the same day at different times.
RECURSIVE MemberIssues(_, _, _)
MemberIssues(i, sp, k) ==
    IF k > TicketsOf(i, sp) THEN << >>
    ELSE <<Issue("K-" \o ToString(10 * i + k),
                 IF k <= ResolvedOf(i, sp) THEN "Done" ELSE "To Do",
                 Members[i],
                 IF i % 2 = 0 THEN "PRJ" ELSE "OPS",
                 "High", <<i, 9, 0>>, <<i + k, 8 + k, 0>>)>>
         \o MemberIssues(i, sp, k + 1)

RECURSIVE TeamOf(_, _)
TeamOf(n, sp) ==
    IF n = 0 THEN << >> ELSE TeamOf(n - 1, sp) \o MemberIssues(n, sp, 1)

TeamInputs ==
    {search_tickets("client", [kind |-> "ok", issues |-> TeamOf(n, sp)]) :
        n \in 0..MaxGroups, sp \in Spreads}

InitTeams ==
    /\ jira = "client"
    /\ clock = 0
    /\ data_cache = EmptyDict
    /\ cache_timestamp = None
    /\ calls = 0
    /\ reports = 0
    /\ last = NoCall
    /\ prev = Before(NoCall)
    /\ report = EmptyDict
    /\ df \in TeamInputs
    /\ op = "raw"
    /\ out = EmptyDict
    /\ raw_tickets = << >>
    /\ trend_series = << >>
    /\ direction = Frac(0, 1)
    /\ response = NoResponse
    /\ pc = [p \in Callers |-> "idle"]
    /\ local = [p \in Callers |-> NoLocals]

SpecTeams == InitTeams /\ [][NextReports]_vars

----------------------------------------------------------------------------
(* The trend specification: _calculate_trend applied to the series of up   *)
(* to MaxSeries counts of at most MaxValue.                                *)

SeriesOf(n) == [1..n -> 0..MaxValue]

TrendInputs == UNION {SeriesOf(n) : n \in 0..MaxSeries}

InitTrend ==
    /\ jira = "client"
    /\ clock = 0
    /\ data_cache = EmptyDict
    /\ cache_timestamp = None
    /\ calls = 0
    /\ reports = 0
    /\ last = NoCall
    /\ prev = Before(NoCall)
    /\ report = EmptyDict
    /\ df = EmptyTable
    /\ op = "none"
    /\ out = EmptyDict
    /\ raw_tickets = << >>
    /\ trend_series \in TrendInputs
    /\ direction = Frac(0, 1)
    /\ response = NoResponse
    /\ pc = [p \in Callers |-> "idle"]
    /\ local = [p \in Callers |-> NoLocals]

CalculateTrend ==
    /\ op = "none"
    /\ direction' = _calculate_trend(trend_series)
    /\ op' = "_calculate_trend"
    /\ UNCHANGED <<jira, clock, data_cache, cache_timestamp, calls, reports,
                   last, prev, report, df, out, raw_tickets, trend_series,
                   tool_vars, race_vars>>

NextTrend == CalculateTrend

SpecTrend == InitTrend /\ [][NextTrend]_vars

----------------------------------------------------------------------------
(* Tool layer: AnalyticsTools (src/analytics_tools.py)                     *)
(* A text response is kept as its fixed text (without the leading cross    *)
(* mark of the error texts), the exception text that follows it, and the   *)
(* list of its "- name: total=.., resolved=.., avg_days=.., rate=..%"       *)
(* lines; raised is the exception that leaves the operation, "None" when   *)
(* it returns.                                                             *)

Reply(text, detail, lines) ==
    [text |-> text, detail |-> detail, lines |-> lines, raised |-> "None"]

Raise(exc) == [text |-> "", detail |-> "", lines |-> << >>, raised |-> exc]

\* f"{x:.1f}" of a quotient, in tenths (ties to the even tenth).
Tenths(f) ==
    LET q == (10 * f.num) \div f.den
        r == (10 * f.num) % f.den
    IN  IF 2 * r < f.den THEN q
        ELSE IF 2 * r > f.den THEN q + 1
        ELSE IF q % 2 = 0 THEN q ELSE q + 1

\* One line of a response. float(avg or 0.0) of a missing mean is nan.
Line(g) ==
    [name |-> g.name,
     total |-> g.total_tickets,
     resolved |-> g.resolved_tickets,
     avg_days |-> IF g.avg_resolution_time = NaN THEN NaN
                  ELSE <<Tenths(g.avg_resolution_time[1])>>,
     rate |-> g.rate]

Lines(stats) == [i \in 1..Len(stats) |-> Line(stats[i])]

\* max(lo, n)
AtLeast(lo, n) == IF n < lo THEN lo ELSE n

\* str.strip() of the metric texts that are tried.
Strip(text) ==
    CASE text = " resolved_tickets " -> "resolved_tickets"
      [] text = " " -> ""
      [] OTHER -> text

ValidMetrics ==
    {"total_tickets", "resolved_tickets", "resolution_rate", "avg_resolution_time"}

\* The column of the group rows that holds a metric.
MetricColumn(metric) == IF metric = "resolution_rate" THEN "rate" ELSE metric

\* dtype of the column avg_resolution_time of assignee_stats. The column
\* resolution_time_days it is the group mean of has dtype object (it is
\* created as None and filled row by row); pandas aggregates such a column
\* through its Python fallback, and whether the result is kept as object or
\* converted to float64 depends on the build.
MeanDtypes == {"object", "float64"}

\* Group rows ordered by the mean resolution time, ascending, ties in their
\* given order.
RECURSIVE SortAscByMean(_)
SortAscByMean(s) ==
    IF s = << >> THEN << >>
    ELSE LET i == CHOOSE i \in 1..Len(s) :
                    /\ \A j \in 1..Len(s) :
                          FracLeq(s[i].avg_resolution_time[1], s[j].avg_resolution_time[1])
                    /\ \A j \in 1..(i - 1) :
                          ~FracLeq(s[j].avg_resolution_time[1], s[i].avg_resolution_time[1])
         IN  <<s[i]>> \o SortAscByMean(Remove(s, i))

\* DataFrame.nsmallest(n, 'avg_resolution_time') of the rows with a mean:
\* refused for a column of dtype object.
nsmallest(stats, n, dtype) ==
    IF dtype = "object" THEN Raise("TypeError")
    ELSE Reply("Top assignees by avg_resolution_time", "",
               Lines(FirstN(SortAscByMean(stats), n)))

\* The try block of top_assignees. r is the outcome of its get_fresh_data
\* call; limit is <<n>>, or << >> for a value int() refuses.
TopAssigneesBody(metric_arg, limit, dtype, r) ==
    LET metric == Strip(metric_arg)
    IN  IF r.raised # "None" THEN Raise(r.raised)
        ELSE IF r.ret = EmptyTable THEN Reply("No data available", "", << >>)
        ELSE LET stats == AssigneeAnalyticsOf[r.ret].assignee_stats
             IN  IF stats = << >>
                 THEN Reply("No assignee analytics available", "", << >>)
                 ELSE IF metric \notin ValidMetrics
                 THEN Reply("metric must be one of", "", << >>)
                 ELSE IF limit = << >> THEN Raise("ValueError")
                 ELSE IF metric = "avg_resolution_time"
                 THEN nsmallest(SelectSeq(stats, LAMBDA g : g.avg_resolution_time # NaN),
                                AtLeast(1, limit[1]), dtype)
                 ELSE Reply("Top assignees by " \o metric, "",
                            Lines(FirstN(SortDescBy(stats, MetricColumn(metric)),
                                         AtLeast(1, limit[1]))))

\* Variant whose handler catches what get_fresh_data catches, no more.
top_assignees_narrow(metric_arg, limit, dtype, r) ==
    LET body == TopAssigneesBody(metric_arg, limit, dtype, r)
    IN  IF body.raised \in Caught
        THEN Reply("Error computing top assignees", body.raised, << >>)
        ELSE body

\* top_assignees: the try block under 'except Exception'.
top_assignees(metric_arg, limit, dtype, r) ==
    LET body == TopAssigneesBody(metric_arg, limit, dtype, r)
    IN  IF body.raised # "None"
        THEN Reply("Error computing top assignees", body.raised, << >>)
        ELSE body

\* assignee_performance_summary; min_tickets and limit as limit above.
assignee_performance_summary(min_tickets, limit, r) ==
    LET body ==
          IF r.raised # "None" THEN Raise(r.raised)
          ELSE IF r.ret = EmptyTable THEN Reply("No data available", "", << >>)
          ELSE LET stats == AssigneeAnalyticsOf[r.ret].assignee_stats
               IN  IF stats = << >>
                   THEN Reply("No assignee analytics available", "", << >>)
                   ELSE IF min_tickets = << >> \/ limit = << >> THEN Raise("ValueError")
                   ELSE LET filtered ==
                              SelectSeq(stats, LAMBDA g :
                                  g.total_tickets >= AtLeast(0, min_tickets[1]))
                        IN  Reply("Assignee Performance (top)", "",
                                  Lines(FirstN(filtered, AtLeast(1, limit[1]))))
    IN  IF body.raised # "None"
        THEN Reply("Error generating summary", body.raised, << >>)
        ELSE body

\* (query or "").strip().lower() of the queries that are tried.
Normalise(query) ==
    CASE query = "AMY" -> "amy"
      [] query = " " -> ""
      [] OTHER -> query

\* Some of the texts contained in str(name).lower().
Fragments(name) ==
    CASE name = "Amy" -> {"amy", "am", "a"}
      [] name = "Bob" -> {"bob", "b"}
      [] name = "Unassigned" -> {"unassigned", "un", "a"}
      [] OTHER -> {}

\* Whether assignee_detail calls get_fresh_data at all.
NeedsData(query) == Normalise(query) # ""

\* Variant that answers with the last of the matching assignees.
assignee_detail_last(query, r) ==
    LET q == Normalise(query)
        body ==
          IF r.raised # "None" THEN Raise(r.raised)
          ELSE IF r.ret = EmptyTable THEN Reply("No data available", "", << >>)
          ELSE LET stats == AssigneeAnalyticsOf[r.ret].assignee_stats
                   matches == SelectSeq(stats, LAMBDA g : q \in Fragments(g.name))
               IN  IF stats = << >>
                   THEN Reply("No assignee analytics available", "", << >>)
                   ELSE IF matches = << >>
                   THEN Reply("No assignee matching", query, << >>)
                   ELSE Reply("Assignee", "", Lines(<<matches[Len(matches)]>>))
    IN  IF body.raised # "None"
        THEN Reply("Error fetching assignee detail", body.raised, << >>)
        ELSE body

\* assignee_detail, for a query that is not blank once stripped.
assignee_detail(query, r) ==
    LET q == Normalise(query)
        body ==
          IF r.raised # "None" THEN Raise(r.raised)
          ELSE IF r.ret = EmptyTable THEN Reply("No data available", "", << >>)
          ELSE LET stats == AssigneeAnalyticsOf[r.ret].assignee_stats
                   matches == SelectSeq(stats, LAMBDA g : q \in Fragments(g.name))
               IN  IF stats = << >>
                   THEN Reply("No assignee analytics available", "", << >>)
                   ELSE IF matches = << >>
                   THEN Reply("No assignee matching", query, << >>)
                   ELSE Reply("Assignee", "", Lines(<<matches[1]>>))
    IN  IF body.raised # "None"
        THEN Reply("Error fetching assignee detail", body.raised, << >>)
        ELSE body

----------------------------------------------------------------------------
(* The tool specification: the three assignee tools called on one engine   *)

ToolResponses ==
    {[kind |-> "api_error", issues |-> << >>]}
        \cup {[kind |-> "ok", issues |-> l] : l \in ToolIssueLists}

ToolEnvironments ==
    {e \in ToolResponses \X PandasBuilds :
        e[2] = "2.x" \/ MixedOffsets(e[1].issues, "created")
                    \/ MixedOffsets(e[1].issues, "updated")}

\* The arguments that are tried.
Metrics ==
    {"total_tickets", " resolved_tickets ", "resolution_rate",
     "avg_resolution_time", "bogus", " "}

Limits == {<<0>>, <<2>>, <<10>>, << >>}

SummaryArguments ==
    {<<<<1>>, <<25>>>>, <<<<2>>, <<25>>>>, <<<<0>>, <<1>>>>, <<<< >>, <<25>>>>}

Queries == {"", " ", "AMY", "a", "b", "zed"}

\* The dtypes of the group means a call with this metric can meet.
DtypesFor(metric) ==
    IF Strip(metric) = "avg_resolution_time" THEN MeanDtypes ELSE {"object"}

InitTools ==
    /\ jira \in {"client", "None"}
    /\ clock = 0
    /\ data_cache = EmptyDict
    /\ cache_timestamp = None
    /\ calls = 0
    /\ reports = 0
    /\ last = NoCall
    /\ prev = Before(NoCall)
    /\ report = EmptyDict
    /\ df = EmptyTable
    /\ op = "none"
    /\ out = EmptyDict
    /\ raw_tickets = << >>
    /\ trend_series = << >>
    /\ direction = Frac(0, 1)
    /\ response = NoResponse
    /\ pc = [p \in Callers |-> "idle"]
    /\ local = [p \in Callers |-> NoLocals]

ToolFrame ==
    UNCHANGED <<jira, clock, reports, report, df, op, out, raw_tickets,
                trend_vars, race_vars>>

TopAssignees(metric, limit, dtype, resp, build) ==
    /\ calls < MaxCalls
    /\ \E r \in {get_fresh_data(FALSE, clock, resp, build)} :
           /\ data_cache' = r.data_cache
           /\ cache_timestamp' = r.cache_timestamp
           /\ last' = Observe(FALSE, resp, "tool", r)
           /\ response' = ToolCall("top_assignees", metric, limit, << >>, "", dtype,
                                   top_assignees(metric, limit, dtype, r))
    /\ prev' = Before(last)
    /\ calls' = calls + 1
    /\ ToolFrame

AssigneePerformanceSummary(min_tickets, limit, resp, build) ==
    /\ calls < MaxCalls
    /\ \E r \in {get_fresh_data(FALSE, clock, resp, build)} :
           /\ data_cache' = r.data_cache
           /\ cache_timestamp' = r.cache_timestamp
           /\ last' = Observe(FALSE, resp, "tool", r)
           /\ response' = ToolCall("assignee_performance_summary", "", limit,
                                   min_tickets, "", "object",
                                   assignee_performance_summary(min_tickets, limit, r))
    /\ prev' = Before(last)
    /\ calls' = calls + 1
    /\ ToolFrame

\* A blank query is answered before the engine is asked for data.
AssigneeDetail(query, resp, build) ==
    /\ calls < MaxCalls
    /\ IF NeedsData(query)
       THEN /\ \E r \in {get_fresh_data(FALSE, clock, resp, build)} :
                  /\ data_cache' = r.data_cache
                  /\ cache_timestamp' = r.cache_timestamp
                  /\ last' = Observe(FALSE, resp, "tool", r)
                  /\ response' = ToolCall("assignee_detail", "", << >>, << >>, query,
                                          "object", assignee_detail(query, r))
            /\ prev' = Before(last)
            /\ calls' = calls + 1
       ELSE /\ response' = ToolCall("assignee_detail", "", << >>, << >>, query,
                                    "object",
                                    Reply("Provide an assignee substring (name/email)",
                                          "", << >>))
            /\ UNCHANGED <<data_cache, cache_timestamp, last, prev, calls>>
    /\ ToolFrame

\* The cached table grows older than cache_duration.
Expire ==
    /\ 1 <= calls /\ calls < MaxCalls
    /\ clock + cache_duration <= MaxClock
    /\ clock' = clock + cache_duration
    /\ UNCHANGED <<jira, data_cache, cache_timestamp, calls, reports, last,
                   prev, report, df, op, out, raw_tickets, trend_vars,
                   tool_vars, race_vars>>

NextTools ==
    \/ Expire
    \/ \E m \in Metrics, l \in Limits, e \in ToolEnvironments :
          \E d \in DtypesFor(m) : TopAssignees(m, l, d, e[1], e[2])
    \/ \E a \in SummaryArguments, e \in ToolEnvironments :
          AssigneePerformanceSummary(a[1], a[2], e[1], e[2])
    \/ \E q \in Queries, e \in ToolEnvironments : AssigneeDetail(q, e[1], e[2])

SpecTools == InitTools /\ [][NextTools]_vars

----------------------------------------------------------------------------
(* The race specification: two callers run get_fresh_data(False) on one    *)
(* engine at the same time, each statement being one step. The cache is    *)
(* absent, or holds a table stored cache_duration before the clock starts. *)

StaleTable ==
    EnrichedTable[search_tickets("client", [kind |-> "ok", issues |-> OtherIssues])]

InitRace ==
    /\ jira = "client"
    /\ clock = 0
    /\ \/ data_cache = EmptyDict /\ cache_timestamp = None
       \/ /\ data_cache = [tickets |-> StaleTable]
          /\ cache_timestamp = <<-cache_duration>>
    /\ calls = 0
    /\ reports = 0
    /\ last = NoCall
    /\ prev = Before(NoCall)
    /\ report = EmptyDict
    /\ df = EmptyTable
    /\ op = "none"
    /\ out = EmptyDict
    /\ raw_tickets = << >>
    /\ trend_series = << >>
    /\ direction = Frac(0, 1)
    /\ response = NoResponse
    /\ pc = [p \in Callers |-> "idle"]
    /\ local = [p \in Callers |-> NoLocals]

RaceFrame ==
    UNCHANGED <<jira, calls, reports, last, prev, report, df, op, out,
                raw_tickets, trend_vars, tool_vars>>

\* Lines 22-29: now is read, and the cached table is returned when it is
\* fresh.
Enter(p) ==
    /\ pc[p] = "idle"
    /\ local' = [local EXCEPT ![p].now = clock,
                              ![p].df = IF CacheHit(FALSE, clock)
                                        THEN data_cache["tickets"] ELSE EmptyTable]
    /\ pc' = [pc EXCEPT ![p] = IF CacheHit(FALSE, clock) THEN "done" ELSE "fetch"]
    /\ UNCHANGED <<clock, data_cache, cache_timestamp>>
    /\ RaceFrame

\* Lines 31-49 and 57-59: the fetch, and parsing and enrichment of what it
\* delivers, all on local data.
Fetch(p, resp, build) ==
    /\ pc[p] = "fetch"
    /\ LET fetched == search_tickets(jira, resp)
           done == fetched = << >> \/ EnrichRaises[fetched][build] # "None"
       IN  /\ local' = [local EXCEPT ![p].df = IF done THEN EmptyTable
                                               ELSE EnrichedTable[fetched]]
           /\ pc' = [pc EXCEPT ![p] = IF done THEN "done" ELSE "store_table"]
    /\ UNCHANGED <<clock, data_cache, cache_timestamp>>
    /\ RaceFrame

\* Line 52: self.data_cache['tickets'] = df
StoreTable(p) ==
    /\ pc[p] = "store_table"
    /\ data_cache' = SetItem(data_cache, "tickets", local[p].df)
    /\ pc' = [pc EXCEPT ![p] = "store_timestamp"]
    /\ UNCHANGED <<clock, cache_timestamp, local>>
    /\ RaceFrame

\* Lines 53-55: self.cache_timestamp = now; return df
StoreTimestamp(p) ==
    /\ pc[p] = "store_timestamp"
    /\ cache_timestamp' = <<local[p].now>>
    /\ local' = [local EXCEPT ![p].stored = TRUE]
    /\ pc' = [pc EXCEPT ![p] = "done"]
    /\ UNCHANGED <<clock, data_cache>>
    /\ RaceFrame

\* Time passes while a caller is at work.
RaceTick ==
    /\ clock < MaxClock
    /\ \E p \in Callers : pc[p] \notin {"idle", "done"}
    /\ clock' = clock + 1
    /\ UNCHANGED <<data_cache, cache_timestamp, pc, local>>
    /\ RaceFrame

NextRace ==
    \/ RaceTick
    \/ \E p \in Callers : Enter(p)
    \/ \E p \in Callers, e \in Environments : Fetch(p, e[1], e[2])
    \/ \E p \in Callers : StoreTable(p)
    \/ \E p \in Callers : StoreTimestamp(p)

SpecRace == InitRace /\ [][NextRace]_vars

----------------------------------------------------------------------------
(* Properties of the freshness controller                                  *)

Called == calls >= 1
CalledTwice == calls >= 2

\* The cache as the last call found it was present and fresh.
FoundFresh(c) ==
    /\ "tickets" \in DOMAIN c.pre_cache
    /\ c.pre_ts # None
    /\ c.now - c.pre_ts[1] < cache_duration

\* This step is a call of get_fresh_data that follows an earlier one.
NextCall == calls >= 1 /\ calls' = calls + 1

\* C1: a call with force_refresh=False that finds a cached table younger
\* than cache_duration returns that table, does not invoke search_tickets
\* and leaves the cached table and the cache timestamp as they were.
C1_CacheHit ==
    (Called /\ ~last.force /\ FoundFresh(last)) =>
        /\ last.raised = "None"
        /\ last.ret = last.pre_cache["tickets"]
        /\ last.fetched = 0
        /\ last.post_cache = last.pre_cache
        /\ last.post_ts = last.pre_ts

C1_Witness ==
    /\ Called /\ ~last.force /\ FoundFresh(last)
    /\ last.now - last.pre_ts[1] = cache_duration - 1
    /\ last.ret # EmptyTable

\* C2 as stated: of two consecutive calls with force_refresh=False made
\* less than cache_duration apart, the second returns what the first
\* returned and does not invoke the source.
C2_AsStated ==
    [][(NextCall /\ ~last.force /\ ~last'.force
            /\ last.raised = "None" /\ last'.raised = "None"
            /\ last'.now - last.now < cache_duration) =>
        (last'.ret = last.ret /\ last'.fetched = 0)]_vars

\* C2 amended: of two consecutive direct calls with force_refresh=False,
\* if the first returned a non-empty table and the second is made less than
\* cache_duration after the cache timestamp the first left, the second
\* returns the same contents and does not invoke the source.
C2_CacheProperty ==
    [][(NextCall /\ ~last.force /\ ~last'.force
            /\ last.via = "direct" /\ last'.via = "direct"
            /\ last.raised = "None" /\ last.ret # EmptyTable
            /\ cache_timestamp # None
            /\ last'.now - cache_timestamp[1] < cache_duration) =>
        (last'.raised = "None" /\ last'.ret = last.ret /\ last'.fetched = 0)]_vars

C2_Witness ==
    /\ CalledTwice /\ ~prev.force /\ ~last.force
    /\ reports = 0
    /\ prev.kind = "table"
    /\ last.now - last.pre_ts[1] = cache_duration - 1
    /\ last.fetched = 0 /\ last.ret # EmptyTable

\* C3: a call with force_refresh=True invokes search_tickets exactly once,
\* whether the cache is absent, fresh or stale.
C3_ForceRefetches == (Called /\ last.force) => last.fetched = 1

C3_Witness == Called /\ last.force /\ FoundFresh(last) /\ last.fetched = 1

\* C4: when the source fails or delivers no records the call returns the
\* empty table and leaves cached table and cache timestamp as they were;
\* the cache never holds an empty table.
C4_FailureKeepsCache ==
    /\ (Called /\ last.src \in {"failed", "empty"}) =>
          /\ last.raised = "None"
          /\ last.ret = EmptyTable
          /\ last.post_cache = last.pre_cache
          /\ last.post_ts = last.pre_ts
    /\ "tickets" \in DOMAIN data_cache => data_cache["tickets"] # EmptyTable

C4_Witness ==
    /\ Called /\ last.src = "failed" /\ last.ret = EmptyTable
    /\ "tickets" \in DOMAIN last.pre_cache
    /\ last.post_cache = last.pre_cache

\* C5 as stated: after a call that came back empty because the source
\* failed or had no records, the next call invokes the source again.
C5_AsStated ==
    (CalledTwice /\ prev.kind = "nodata") => last.fetched = 1

\* C5 amended: after such a call the next call invokes the source again,
\* except when the empty call was a forced refresh over a cached table that
\* is still fresh at the next call and the next call is unforced: that call
\* is answered with the earlier table and does not invoke the source.
C5_RetryAfterFailure ==
    (CalledTwice /\ prev.kind = "nodata") =>
        IF prev.force /\ ~last.force /\ FoundFresh(last)
        THEN /\ last.fetched = 0
             /\ last.ret = last.pre_cache["tickets"]
        ELSE last.fetched = 1

C5_Witness ==
    /\ CalledTwice /\ prev.kind = "nodata"
    /\ ~prev.force /\ ~last.force
    /\ "tickets" \in DOMAIN last.pre_cache
    /\ last.fetched = 1

\* C6: no failure of the source call or of parsing and enrichment escapes
\* get_fresh_data; the call returns normally.
C6_NoEscape ==
    /\ Called => last.raised = "None"
    /\ "raised" \notin DOMAIN report

----------------------------------------------------------------------------
(* Properties of enrichment and of the reports                             *)

\* dict.get(key, default), the way the dashboard reads a report.
Get(d, key, default) == IF key \in DOMAIN d THEN d[key] ELSE default

Enriched == op # "raw"
OverviewOf(t) == op = "overview" /\ df = t

CountKeys ==
    {"total_tickets", "active_tickets", "resolved_tickets", "pending_tickets"}

\* C7 as stated: for every non-empty enriched table the overview has
\* active + resolved + pending = total.
C7_AsStated ==
    (op = "overview" /\ df # EmptyTable) =>
        out.active_tickets + out.resolved_tickets + out.pending_tickets
            = out.total_tickets

\* C7 amended: for every non-empty enriched table, active + resolved +
\* pending = total minus the number of records whose status_category is
\* Other; the sum never exceeds total.
C7_PartitionWithOther ==
    (op = "overview" /\ df # EmptyTable) =>
        LET sum == out.active_tickets + out.resolved_tickets + out.pending_tickets
            other == Cardinality({i \in 1..Len(df) : df[i].status_category = "Other"})
        IN  /\ sum + other = out.total_tickets
            /\ sum <= out.total_tickets
            /\ out.total_tickets = Len(df)

C7_Witness ==
    /\ op = "overview" /\ Len(df) = 2
    /\ df[1].status_category = "Other"
    /\ df[2].status_category = "Pending"
    /\ out.total_tickets = 2 /\ out.pending_tickets = 1

NeutralAsStated(o) == IF o = "epic" THEN EpicPlaceholder ELSE EmptyDict

\* C9 as stated: on the empty table each of the seven report operations
\* returns its empty structure, the zeroed placeholder in the case of the
\* epic report, and never null.
C9_AsStated ==
    (op \in ReportOps /\ df = EmptyTable) =>
        /\ out # Null
        /\ DOMAIN out = DOMAIN NeutralAsStated(op)

\* C9 amended: on the empty table each of the seven report operations,
\* the epic report included, returns the empty mapping and never null, and
\* leaves the table empty; the zeroed placeholder is what the epic report
\* returns for a table with rows.
C9_EmptyInput ==
    /\ (op \in ReportOps /\ df = EmptyTable) =>
          /\ out # Null
          /\ DOMAIN out = {}
    /\ (op = "epic" /\ df # EmptyTable) => out = EpicPlaceholder

C9_Witness == op = "epic" /\ df = EmptyTable /\ DOMAIN out = {}

\* C10: in every enriched record is_resolved holds exactly when
\* status_category is Resolved, exactly when status is one of Done, Closed,
\* Resolved, Completed; and status_category is the one of Resolved, Active,
\* Pending, Other that the lookup gives the status.
C10_StatusLookup ==
    Enriched =>
        \A i \in 1..Len(df) :
            LET r == df[i]
                resolved == r.status \in {"Done", "Closed", "Resolved", "Completed"}
                active == r.status \in {"In Progress", "Active", "Development"}
                pending == r.status \in {"To Do", "Open", "New", "Backlog"}
            IN  /\ r.is_resolved <=> (r.status_category = "Resolved")
                /\ r.is_resolved <=> resolved
                /\ r.status_category \in {"Resolved", "Active", "Pending", "Other"}
                /\ (r.status_category = "Active") <=> active
                /\ (r.status_category = "Pending") <=> pending
                /\ (r.status_category = "Other") <=> ~(resolved \/ active \/ pending)

C10_Witness ==
    /\ op = "enriched" /\ Len(df) = 2
    /\ df[1].status = "Completed" /\ df[1].is_resolved
    /\ df[2].status = "done" /\ df[2].status_category = "Other"

----------------------------------------------------------------------------
(* Properties of enrichment over timestamps of any time of day             *)

\* Record i of the enriched table is resolved and has both timestamps.
Timed(i) ==
    /\ df[i].is_resolved
    /\ df[i].created # NaT
    /\ df[i].updated # NaT

\* Hours from created to updated, and the difference of their dates.
ElapsedHours(i) == Instant(df[i].updated) - Instant(df[i].created)
DateDifference(i) ==
    (df[i].updated[1] \div HoursPerDay) - (df[i].created[1] \div HoursPerDay)

\* C11 as stated: a resolved record with both timestamps parsed has
\* resolution_time_days equal to the difference of the calendar dates of
\* updated and created; every other record has it null.
C11_AsStated ==
    Enriched =>
        \A i \in 1..Len(df) :
            IF Timed(i)
            THEN /\ df[i].resolution_time_days # None
                 /\ df[i].resolution_time_days[1] = DateDifference(i)
            ELSE df[i].resolution_time_days = None

\* C11 amended: a resolved record with both timestamps parsed has a non-null
\* resolution_time_days, the number of whole 24-hour days from created to
\* updated, rounded down; every other record has it null.
C11_WholeDays ==
    Enriched =>
        \A i \in 1..Len(df) :
            IF Timed(i)
            THEN /\ df[i].resolution_time_days # None
                 /\ LET d == df[i].resolution_time_days[1]
                    IN  /\ d * HoursPerDay <= ElapsedHours(i)
                        /\ ElapsedHours(i) < (d + 1) * HoursPerDay
            ELSE df[i].resolution_time_days = None

C11_Witness ==
    /\ op = "enriched"
    /\ \E i \in 1..Len(df) :
          /\ Timed(i)
          /\ df[i].resolution_time_days = <<1>>
          /\ DateDifference(i) = 2

\* The fields of an enriched record that derive from created.
CreatedFields ==
    {"created", "created_date", "created_week", "created_month", "created_year"}

\* C12: the enriched table has one record per raw record, in the same
\* order; a record whose created text does not parse has null fields
\* derived from created, one whose created or updated text does not parse
\* has null resolution_time_days, and the other records are enriched as
\* they are without it.
C12_RowsRetained ==
    Enriched =>
        /\ Len(df) = Len(raw_tickets)
        /\ \A i \in 1..Len(df) :
              /\ df[i].key = raw_tickets[i].key
              /\ ~WellFormed(raw_tickets[i].created) =>
                    /\ \A c \in CreatedFields : df[i][c] = NaT
                    /\ "week_start" \in DOMAIN df[i] => df[i].week_start = NaT
                    /\ df[i].resolution_time_days = None
              /\ ~WellFormed(raw_tickets[i].updated) =>
                    /\ df[i].updated = NaT
                    /\ df[i].resolution_time_days = None
              /\ (op = "enriched" /\ ~(WellFormed(raw_tickets[i].created)
                                        /\ WellFormed(raw_tickets[i].updated))) =>
                    Remove(df, i) = _calculate_metrics(ParseDates(Remove(raw_tickets, i)))

C12_Witness ==
    /\ op = "enriched" /\ Len(df) = 2
    /\ ~WellFormed(raw_tickets[1].created) /\ WellFormed(raw_tickets[1].updated)
    /\ df[1].resolution_time_days = None /\ df[1].updated # NaT
    /\ df[2].resolution_time_days # None

----------------------------------------------------------------------------
(* Properties of the overview                                              *)

\* The records of df in status category c.
InCategory(c) == {i \in 1..Len(df) : df[i].status_category = c}

\* The records of df with a resolution time, and the sum of these times.
WithTime == {i \in 1..Len(df) : df[i].resolution_time_days # None}

RECURSIVE TotalTime(_)
TotalTime(I) ==
    IF I = {} THEN 0
    ELSE LET i == CHOOSE x \in I : TRUE
         IN  df[i].resolution_time_days[1] + TotalTime(I \ {i})

\* C15: for a non-empty enriched table the overview has total = number of
\* records, active, resolved and pending = number of records of that status
\* category, resolution_rate = resolved / total * 100 and avg_resolution_time
\* = mean of the non-null resolution_time_days, 0 when there are none; the
\* two-record scenario gives 2, 0, 1, 1, 50 and 4.
C15_OverviewValues ==
    (op = "overview" /\ df # EmptyTable) =>
        /\ out.total_tickets = Len(df)
        /\ out.active_tickets = Cardinality(InCategory("Active"))
        /\ out.resolved_tickets = Cardinality(InCategory("Resolved"))
        /\ out.pending_tickets = Cardinality(InCategory("Pending"))
        /\ out.resolution_rate.den # 0
        /\ out.resolution_rate.num * Len(df)
              = 100 * Cardinality(InCategory("Resolved")) * out.resolution_rate.den
        /\ out.avg_resolution_time.den # 0
        /\ IF WithTime = {} THEN out.avg_resolution_time.num = 0
           ELSE out.avg_resolution_time.num * Cardinality(WithTime)
                   = TotalTime(WithTime) * out.avg_resolution_time.den
        /\ raw_tickets = search_tickets("client", [kind |-> "ok", issues |-> ScenarioIssues]) =>
              /\ out.total_tickets = 2 /\ out.active_tickets = 0
              /\ out.resolved_tickets = 1 /\ out.pending_tickets = 1
              /\ FracEq(out.resolution_rate, Frac(50, 1))
              /\ FracEq(out.avg_resolution_time, Frac(4, 1))

C15_Witness ==
    /\ op = "overview"
    /\ raw_tickets = search_tickets("client", [kind |-> "ok", issues |-> ScenarioIssues])
    /\ out.total_tickets = 2 /\ out.resolved_tickets = 1
    /\ FracEq(out.avg_resolution_time, Frac(4, 1))

----------------------------------------------------------------------------
(* Properties of the trend direction                                       *)

\* The least-squares slope of trend_series against 0..n-1 as the quotient
\* of the sum of (x - mean x)(y - mean y) by the sum of (x - mean x)^2,
\* both scaled by n^2.
SlopeNum ==
    LET n == Len(trend_series)
        Sx == SumSeq([i \in 1..n |-> i - 1])
        Sy == SumSeq(trend_series)
    IN  SumSeq([i \in 1..n |-> (n * (i - 1) - Sx) * (n * trend_series[i] - Sy)])

SlopeDen ==
    LET n == Len(trend_series)
        Sx == SumSeq([i \in 1..n |-> i - 1])
    IN  SumSeq([i \in 1..n |-> (n * (i - 1) - Sx) * (n * (i - 1) - Sx)])

\* C17: _calculate_trend returns a value in [-1, 1] with the sign of the
\* least-squares slope, the slope itself when |slope| <= 1 and +1 or -1
\* otherwise; for a series of length 0 or 1 it returns 0.
C17_TrendDirection ==
    op = "_calculate_trend" =>
        /\ direction.den > 0
        /\ -direction.den <= direction.num /\ direction.num <= direction.den
        /\ IF Len(trend_series) < 2 THEN direction.num = 0
           ELSE /\ (direction.num > 0) = (SlopeNum > 0)
                /\ (direction.num < 0) = (SlopeNum < 0)
                /\ IF -SlopeDen <= SlopeNum /\ SlopeNum <= SlopeDen
                   THEN direction.num * SlopeDen = SlopeNum * direction.den
                   ELSE direction.num \in {direction.den, -direction.den}

C17_Witness ==
    /\ op = "_calculate_trend"
    /\ trend_series = <<3, 1, 0>>
    /\ SlopeNum < -SlopeDen
    /\ direction.num = -direction.den

----------------------------------------------------------------------------
(* Properties of the comprehensive report                                  *)

\* The last call of get_fresh_data was made by generate_comprehensive_report
\* and returned to it.
Reported == Called /\ last.via = "report" /\ last.raised = "None"

SevenReports ==
    {"overview", "assignees", "projects", "trends", "status", "priority", "epics"}

\* C16: generate_comprehensive_report returns the error indicator alone when
\* the table it obtained is empty, and otherwise the seven reports together
\* with the cache timestamp and the record count, without error indicator.
C16_ReportShapes ==
    Reported =>
        IF last.ret = EmptyTable
        THEN /\ DOMAIN report = {"error"}
             /\ report.error = "No data available"
        ELSE /\ DOMAIN report = SevenReports \cup {"data_freshness", "total_records"}
             /\ \A k \in SevenReports : DOMAIN report[k] # {}
             /\ report.data_freshness = cache_timestamp
             /\ report.data_freshness # None
             /\ report.total_records = Len(last.ret)

C16_Witness ==
    /\ Reported /\ last.fetched = 0 /\ Len(last.ret) = 2
    /\ report.total_records = 2
    /\ report.overview.total_tickets = 2
    /\ "error" \notin DOMAIN report

\* C18: the report operations leave the table they are given as it was, so
\* that after generate_comprehensive_report the cached table is the table
\* get_fresh_data returned to it, with the same columns and values.
C18_ReportsPure ==
    (Reported /\ last.ret # EmptyTable) =>
        /\ "tickets" \in DOMAIN data_cache
        /\ data_cache["tickets"] = last.ret

----------------------------------------------------------------------------
(* Properties of the tool layer                                            *)

\* The last tool call was top_assignees with this stripped metric.
TopCalled == response.op = "top_assignees"
MetricAsked == Strip(response.metric)

\* C13: top_assignees answers every metric name outside the four valid ones
\* with the invalid-metric text, whatever the table, the empty and the
\* unavailable one included.
C13_InvalidMetricRejected ==
    (TopCalled /\ MetricAsked \notin ValidMetrics) =>
        /\ response.reply.raised = "None"
        /\ response.reply.text = "metric must be one of"

\* The top_assignees call had a table with rows, a valid metric and a limit
\* that is a number.
Ranked ==
    /\ TopCalled /\ MetricAsked \in ValidMetrics /\ response.limit # << >>
    /\ last.raised = "None" /\ last.ret # EmptyTable

\* The assignees of the table the call worked on, and those with a ticket
\* that has a resolution time.
Assignees == {last.ret[i].assignee : i \in 1..Len(last.ret)}
AssigneesWithMean ==
    {last.ret[i].assignee :
        i \in {n \in 1..Len(last.ret) : last.ret[n].resolution_time_days # None}}

\* The value of the metric asked for in a line of the response; for
\* avg_resolution_time it is there only for a line with a mean.
MetricOf(line) ==
    CASE MetricAsked = "total_tickets" -> line.total
      [] MetricAsked = "resolved_tickets" -> line.resolved
      [] MetricAsked = "resolution_rate" -> line.rate
      [] OTHER -> line.avg_days[1]

Smaller(a, b) == IF a < b THEN a ELSE b

\* C14: for avg_resolution_time the response lists the groups with a
\* non-null mean, whatever their number of tickets, in ascending order of
\* the mean; for the other metrics it lists all groups in descending order
\* of the metric; in both cases the first N of them.
C14_TopOrdering ==
    Ranked =>
        LET lines == response.reply.lines
            n == AtLeast(1, response.limit[1])
            listed == {lines[i].name : i \in 1..Len(lines)}
            eligible == IF MetricAsked = "avg_resolution_time"
                        THEN AssigneesWithMean ELSE Assignees
        IN  /\ response.reply.raised = "None"
            /\ response.reply.text = "Top assignees by " \o MetricAsked
            /\ Len(lines) = Smaller(n, Cardinality(eligible))
            /\ Cardinality(listed) = Len(lines)
            /\ listed \subseteq eligible
            /\ \A i \in 1..Len(lines), j \in 1..Len(lines) :
                  i < j =>
                     IF MetricAsked = "avg_resolution_time"
                     THEN MetricOf(lines[i]) <= MetricOf(lines[j])
                     ELSE MetricOf(lines[i]) >= MetricOf(lines[j])

\* The texts the three tools answer with.
ToolTexts ==
    {"No data available", "No assignee analytics available",
     "metric must be one of", "Provide an assignee substring (name/email)",
     "No assignee matching", "Assignee", "Assignee Performance (top)",
     "Error computing top assignees", "Error generating summary",
     "Error fetching assignee detail"}
        \cup {"Top assignees by " \o m : m \in ValidMetrics}

\* The last tool call asked the engine for data.
AskedForData ==
    /\ response.op # "none"
    /\ response.op = "assignee_detail" => NeedsData(response.query)

\* C20: assignee_performance_summary, assignee_detail and top_assignees never
\* raise: they answer with a text, and with their error text when
\* get_fresh_data raised.
C20_ToolsNeverRaise ==
    response.op # "none" =>
        /\ response.reply.raised = "None"
        /\ response.reply.text \in ToolTexts
        /\ (AskedForData /\ last.raised # "None") =>
              /\ response.reply.text \in
                    {"Error computing top assignees", "Error generating summary",
                     "Error fetching assignee detail"}
              /\ response.reply.detail = last.raised

C20_Witness ==
    /\ TopCalled /\ last.raised = "AttributeError"
    /\ response.reply.raised = "None"
    /\ response.reply.text = "Error computing top assignees"
    /\ response.reply.detail = "AttributeError"

----------------------------------------------------------------------------
(* Properties of concurrent refreshes                                      *)

\* C19: once both concurrent calls have finished, the cached table and the
\* cache timestamp are those of one and the same refresh.
C19_LastWriteWins ==
    ((\A p \in Callers : pc[p] = "done") /\ (\E p \in Callers : local[p].stored)) =>
        \E p \in Callers :
            /\ local[p].stored
            /\ data_cache["tickets"] = local[p].df
            /\ cache_timestamp = <<local[p].now>>

----------------------------------------------------------------------------
(* Properties of the ticket data source as the engine sees it              *)

\* What search_tickets hands back for a query that matched no tickets.
NoTickets == search_tickets("client", [kind |-> "ok", issues |-> << >>])

\* C21: when search_tickets failed (no client, or the server call raised),
\* what it handed to get_fresh_data differs from what it hands back for a
\* successful query that matched no tickets.
C21_FailureDistinguishable ==
    (Called /\ last.src = "failed") => last.got # NoTickets

----------------------------------------------------------------------------
(* Properties of the refresh path                                          *)

\* The last call was forced, or found no cached table, or found one whose
\* age had reached cache_duration.
MustRefresh(c) == c.force \/ ~FoundFresh(c)

\* C22: a call that is forced, or finds no cached table, or finds one of
\* age cache_duration or more, and whose source returns a non-empty result,
\* invokes the source once, stores the newly enriched table with the now of
\* the call as cache timestamp, and returns that table.
C22_RefreshReplaces ==
    (Called /\ MustRefresh(last) /\ last.src = "records") =>
        /\ last.fetched = 1
        /\ last.raised = "None"
        /\ last.ret = EnrichedTable[last.got]
        /\ "tickets" \in DOMAIN last.post_cache
        /\ last.post_cache["tickets"] = last.ret
        /\ last.post_ts = <<last.now>>

\* The last call left the cache entry as it found it.
CacheUntouched(c) ==
    c.post_cache = c.pre_cache /\ c.post_ts = c.pre_ts

\* The last call replaced the cache entry: the table it fetched and the now
\* of the call, both.
CacheReplaced(c) ==
    /\ c.fetched = 1
    /\ c.ret # EmptyTable
    /\ c.post_cache = [tickets |-> c.ret]
    /\ c.post_ts = <<c.now>>

\* C23: the cache is one all-or-nothing slot: the timestamp is set exactly
\* when a table is cached, 'tickets' is the only entry, the cached table is
\* never empty, and a call either leaves table and timestamp as they were
\* or replaces both.
C23_SingleSlot ==
    /\ (cache_timestamp # None) <=> ("tickets" \in DOMAIN data_cache)
    /\ DOMAIN data_cache \subseteq {"tickets"}
    /\ "tickets" \in DOMAIN data_cache => data_cache["tickets"] # EmptyTable
    /\ Called => (CacheUntouched(last) \/ CacheReplaced(last))

C23_Witness ==
    /\ Called /\ CacheReplaced(last)
    /\ "tickets" \in DOMAIN last.pre_cache
    /\ last.pre_cache["tickets"] # last.ret
    /\ last.pre_ts # last.post_ts

----------------------------------------------------------------------------
(* Properties of freshness over sequences of calls                         *)

\* C27: every non-empty table a call returns is the cached one, and was
\* fetched less than cache_duration before the now of that call; a call
\* whose refresh fails returns no table rather than an older one.
C27_FreshnessBound ==
    /\ (Called /\ last.ret # EmptyTable) =>
          /\ last.produced # None
          /\ last.now - last.produced[1] < cache_duration
          /\ last.now >= last.produced[1]
          /\ last.post_cache["tickets"] = last.ret
    /\ (Called /\ last.fetched = 1 /\ last.produced # <<last.now>>) =>
          last.ret = EmptyTable

\* A table is served at the last minute of its freshness, after a forced
\* refresh that failed.
C27_Witness ==
    /\ CalledTwice /\ prev.kind = "nodata" /\ prev.force
    /\ last.ret # EmptyTable /\ last.fetched = 0
    /\ last.now - last.produced[1] = cache_duration - 1

\* The timestamp is not later than the clock.
NotInFuture == cache_timestamp # None => cache_timestamp[1] <= clock

\* A step does not move the timestamp back, and moves it only in a call that
\* fetched a non-empty result.
TimestampStep ==
    /\ cache_timestamp # None =>
          /\ cache_timestamp' # None
          /\ cache_timestamp'[1] >= cache_timestamp[1]
    /\ cache_timestamp' # cache_timestamp =>
          /\ calls' = calls + 1
          /\ last'.fetched = 1
          /\ last'.got # << >>

\* C28: over sequential calls under a non-decreasing clock, cache_timestamp
\* never decreases, never exceeds the current time, and changes only in a
\* call that fetched a non-empty result.
C28_TimestampMonotone == [](NotInFuture) /\ [][TimestampStep]_vars

\* The timestamp has moved forward from an earlier one.
C28_Witness ==
    /\ Called /\ last.pre_ts # None /\ cache_timestamp # None
    /\ cache_timestamp[1] > last.pre_ts[1]
    /\ last.got # << >>

\* The report returned last is a full bundle.
FullBundle == "overview" \in DOMAIN report

\* C30: a full bundle carries as data_freshness the time at which the table
\* it was computed from was fetched, and as total_records the total_tickets
\* of its overview.
C30_BundleFreshness ==
    FullBundle =>
        /\ report.data_freshness # None
        /\ report.data_freshness = last.produced
        /\ report.total_records = report.overview.total_tickets
        /\ report.total_records = Len(last.ret)
        /\ report.overview = get_overview_metrics(last.ret)

\* A bundle built from a cached table, after a forced refresh that failed.
C30_Witness ==
    /\ FullBundle /\ CalledTwice
    /\ prev.kind \in {"nodata", "caught", "raised"}
    /\ last.fetched = 0
    /\ report.data_freshness[1] < last.now

----------------------------------------------------------------------------
(* Properties of the group statistics                                      *)

Min(a, b) == IF a < b THEN a ELSE b

\* The elements of a sequence, and whether they are all different.
Range(s) == {s[i] : i \in 1..Len(s)}
NoRepeats(s) == Cardinality(Range(s)) = Len(s)

\* The values of a column of the table, and the number of rows with one.
ValuesOf(col) == {df[i][col] : i \in 1..Len(df)}
RowsOf(col, v) == Cardinality({i \in 1..Len(df) : df[i][col] = v})

\* stats has one group per value of the column, with its number of rows, in
\* descending order of total_tickets.
GroupedDescending(stats, col) ==
    /\ NoRepeats(stats)
    /\ {g.name : g \in Range(stats)} = ValuesOf(col)
    /\ Len(stats) = Cardinality(ValuesOf(col))
    /\ \A g \in Range(stats) : g.total_tickets = RowsOf(col, g.name)
    /\ \A i \in 1..(Len(stats) - 1) :
          stats[i].total_tickets >= stats[i + 1].total_tickets

\* The groups with three tickets or more.
Eligible(stats) == {g \in Range(stats) : g.total_tickets >= 3}

\* picked is the n best of the groups in G, best first, where better(a, b)
\* says that a is at least as good as b.
BestOf(picked, G, n, better(_, _)) ==
    /\ NoRepeats(picked)
    /\ Range(picked) \subseteq G
    /\ Len(picked) = Min(n, Cardinality(G))
    /\ \A g \in Range(picked), h \in G \ Range(picked) : better(g, h)
    /\ \A i \in 1..(Len(picked) - 1) : better(picked[i], picked[i + 1])

HigherRate(a, b) == a.rate >= b.rate
LowerRate(a, b) == a.rate <= b.rate

AssigneeReported == op = "assignee" /\ df # EmptyTable

\* C24: the assignee groups come in descending order of total_tickets,
\* top_assignees is the first 10 of them, and most_efficient and
\* slowest_resolvers are the 5 (or fewer) groups of highest and of lowest
\* resolution rate among those with three tickets or more.
C24_AssigneeRanking ==
    AssigneeReported =>
        /\ GroupedDescending(out.assignee_stats, "assignee")
        /\ out.top_assignees =
              SubSeq(out.assignee_stats, 1, Min(10, Len(out.assignee_stats)))
        /\ BestOf(out.most_efficient, Eligible(out.assignee_stats), 5, HigherRate)
        /\ BestOf(out.slowest_resolvers, Eligible(out.assignee_stats), 5, LowerRate)

\* More than 10 groups, more than 5 of them with three tickets or more and
\* not all of one rate, and a group of fewer tickets whose rate is higher
\* than that of every group listed as most efficient.
C24_Witness ==
    /\ AssigneeReported
    /\ Len(out.assignee_stats) > 10
    /\ Len(out.top_assignees) = 10
    /\ Cardinality(Eligible(out.assignee_stats)) > 5
    /\ Len(out.most_efficient) = 5
    /\ out.most_efficient[1].rate > out.most_efficient[5].rate
    /\ out.most_efficient # out.slowest_resolvers
    /\ \E g \in Range(out.assignee_stats) :
          /\ g.total_tickets < 3
          /\ \A e \in Range(out.most_efficient) : g.rate > e.rate

\* The groups are sound on their own: at least one ticket each, no more
\* resolved tickets than tickets, a rate (in tenths of a percent) from 0 to
\* 100 percent.
GroupsSound(stats) ==
    \A g \in Range(stats) :
        /\ g.total_tickets >= 1
        /\ 0 <= g.resolved_tickets /\ g.resolved_tickets <= g.total_tickets
        /\ 0 <= g.rate /\ g.rate <= 1000

\* The groups add up to the table and to its overview.
GroupsAddUp(stats) ==
    /\ SumSeq([i \in 1..Len(stats) |-> stats[i].total_tickets]) = Len(df)
    /\ SumSeq([i \in 1..Len(stats) |-> stats[i].resolved_tickets])
          = get_overview_metrics(df).resolved_tickets

\* C29: on a non-empty table the assignee groups and the project groups
\* each have at least one ticket, between 0 and that many resolved tickets
\* and a rate between 0 and 100; their totals add up to the number of rows
\* and their resolved counts to the overview's resolved_tickets; and
\* project_count is the number of distinct projects.
C29_GroupStatistics ==
    /\ AssigneeReported =>
          /\ GroupsSound(out.assignee_stats)
          /\ GroupsAddUp(out.assignee_stats)
    /\ (op = "project" /\ df # EmptyTable) =>
          /\ GroupsSound(out.project_stats)
          /\ GroupsAddUp(out.project_stats)
          /\ out.project_count = Cardinality(ValuesOf("project"))

\* Two projects, one with resolved and unresolved tickets and a rate
\* strictly between 0 and 100.
C29_Witness ==
    /\ op = "project" /\ df # EmptyTable
    /\ out.project_count = 2
    /\ \E g \in Range(out.project_stats) :
          /\ 0 < g.resolved_tickets /\ g.resolved_tickets < g.total_tickets
          /\ 0 < g.rate /\ g.rate < 1000
    /\ get_overview_metrics(df).resolved_tickets > 1

----------------------------------------------------------------------------
(* Properties of the trend report                                          *)

\* The resolved rows of the table and the calendar dates of their updates.
ResolvedRows == {i \in 1..Len(df) : df[i].is_resolved}
ResolutionDates == {DateOf(df[i].updated) : i \in ResolvedRows}

\* C26: daily_resolution has one entry per calendar date on which a
\* resolved record was updated, counting the resolved records updated on
\* that date, whatever their time of day.
C26_DailyResolution ==
    (op = "trend" /\ df # EmptyTable) =>
        /\ Len(out.daily_resolution) = Cardinality(ResolutionDates)
        /\ \A d \in ResolutionDates :
              \E e \in Range(out.daily_resolution) :
                  /\ DateOf(e.key) = d
                  /\ e.n = Cardinality({i \in ResolvedRows :
                                           DateOf(df[i].updated) = d})

----------------------------------------------------------------------------
(* Properties of assignee_detail                                           *)

\* The letters of a query once trimmed and lower-cased, and of an assignee
\* name once lower-cased.
Spelled(text) ==
    CASE text \in {"", " "} -> << >>
      [] text \in {"AMY", "Amy"} -> <<"a", "m", "y">>
      [] text = "a" -> <<"a">>
      [] text \in {"b"} -> <<"b">>
      [] text = "Bob" -> <<"b", "o", "b">>
      [] text = "zed" -> <<"z", "e", "d">>
      [] text = "Unassigned" ->
            <<"u", "n", "a", "s", "s", "i", "g", "n", "e", "d">>

\* q occurs in s as a run of consecutive letters.
Occurs(q, s) ==
    \E i \in 1..(Len(s) - Len(q) + 1) : SubSeq(s, i, i + Len(q) - 1) = q

\* This step is a call of assignee_detail.
DetailStep == response'.op = "assignee_detail" /\ response' # response

\* The positions in stats of the assignees whose name contains the query.
Matching(stats, query) ==
    {i \in 1..Len(stats) : Occurs(Spelled(query), Spelled(stats[i].name))}

\* What the call must answer with when it obtained a table: stats are the
\* statistics of that table, in descending order of total tickets.
DetailAnswer ==
    \E stats \in {AssigneeAnalyticsOf[last'.ret].assignee_stats} :
        \E m \in {Matching(stats, response'.query)} :
            IF m = {}
            THEN /\ response'.reply.text = "No assignee matching"
                 /\ response'.reply.detail = response'.query
            ELSE /\ response'.reply.text = "Assignee"
                 /\ response'.reply.lines =
                       <<Line(stats[CHOOSE i \in m : \A j \in m : i <= j])>>

\* C25: assignee_detail rejects a blank query without calling
\* get_fresh_data; otherwise, on the table it obtains, it answers with the
\* statistics of the first assignee, in descending order of total tickets,
\* whose lower-cased name contains the trimmed, lower-cased query, and with
\* the 'no match' response when there is none.
C25_DetailMatch ==
    [][DetailStep =>
        IF Spelled(response'.query) = << >>
        THEN /\ response'.reply.text = "Provide an assignee substring (name/email)"
             /\ UNCHANGED <<calls, last, data_cache, cache_timestamp>>
        ELSE /\ calls' = calls + 1
             /\ (last'.raised = "None" /\ last'.ret # EmptyTable) => DetailAnswer]_vars

\* The query 'a' found two assignees, and the one with more tickets, which
\* comes later in the alphabet, was answered.
C25_Witness ==
    /\ response.op = "assignee_detail" /\ response.query = "a"
    /\ last.ret # EmptyTable
    /\ response.reply.text = "Assignee"
    /\ response.reply.lines[1].name = "Unassigned"
    /\ response.reply.lines[1].total = 2

====
